---- MODULE Spec2Model ----
(***************************************************************************)
(* A model of goorm: the transaction coordinator                           *)
(* (executeTransactionInternal and the Transaction methods), DB.ExecuteQuery *)
(* with Query.Validate and the executor's destructive-write gate, the      *)
(* migrator (Migrator.Plan / Migrator.Execute), the RelationLoader and the *)
(* SQLBuilder.                                                             *)
(*                                                                         *)
(* Go strings that the code parses are sequences of one-character strings; *)
(* dynamically typed values (any) are tagged records.                      *)
(***************************************************************************)
EXTENDS Integers, Sequences, FiniteSets, TLC

VARIABLES
    \* ---- transaction coordinator ----
    ops,          \* query.Operations, the caller's list of steps
    txpc,         \* position in executeTransactionInternal
    i,            \* loop index of `for i, op := range query.Operations` (1-based)
    txState,      \* the sql.Tx: none | open | committed | rolledback | commitfailed
    results,      \* Transaction.results: alias -> Result (with the producing step)
    stepLog,      \* what each executed step was compiled to and how it ended
    committed,    \* steps whose writes are visible in the database
    pending,      \* steps whose writes sit in the open transaction
    ctxDone,      \* the caller's context is cancelled or expired
    cancelMidTx,  \* the context ended while the transaction was open
    ret,          \* the code of the Result the call returned ("none" while running)
    rollbackCalled, \* the coordinator called tx.Rollback()
    nextId,       \* the database's identifier generator
    returning,    \* dialect.SupportsReturning()
    jql,          \* the JSON key that named the operations, and the names given
    \* ---- DB.ExecuteQuery and the executor ----
    eq,           \* the Query passed to ExecuteQuery
    epc,          \* position in ExecuteQuery / Executor.ExecuteUpdate / ExecuteDelete
    rows,         \* number of rows in the target table
    rowsAtCall,   \* rows when ExecuteQuery was called
    confirmDestructive, \* config.Security.ConfirmDestructive
    confirmThreshold,   \* config.Security.ConfirmThreshold
    dbLog,        \* the statements this call sent to the database
    mutated,      \* rows changed or removed by this call
    eres,         \* the code of the Result returned ("none" while running)
    hookMode,     \* db.hooks for the table: "none", "registered" or "failing"
    softDelete,   \* EnableSoftDelete was called for the table
    builds,       \* calls of SQLBuilder.Build() made by this call
    \* ---- Migrator ----
    live,         \* the live schema: table -> column -> type
    models,       \* the registered models: table -> column -> type
    aggressive,   \* config.Migration.Aggressive
    autoBackup,   \* config.Migration.AutoBackup
    plan,         \* plan.Changes
    mpc,          \* position in AutoSync
    mi,           \* index of the next statement of Execute
    migLog,       \* the statements Execute sent, with their outcome
    mret,         \* what AutoSync returned ("none" while running)
    plan2,        \* plan.Changes of a following call of Plan
    now,          \* the clock, in seconds after the first instant
    \* ---- RelationLoader ----
    relData,      \* `data`: the source records
    related,      \* the rows of the related table
    entry,        \* the call made: LoadRelations, or ExecuteQuery with `with`
    rpc,          \* position in the call
    relResult,    \* result.Data of the find on the related table
    rret,         \* what the call returned ("none" while running)
    \* ---- SQLBuilder ----
    bquery,       \* the Query given to NewSQLBuilder
    bdialect,     \* the Dialect given to NewSQLBuilder
    bpc,          \* start | done | failed
    bresult       \* the BuildResult returned

txVars == <<ops, txpc, i, txState, results, stepLog, committed, pending,
            ctxDone, cancelMidTx, ret, rollbackCalled, nextId, returning, jql>>

execVars == <<eq, epc, rows, rowsAtCall, confirmDestructive, confirmThreshold, hookMode,
              softDelete, dbLog, mutated, eres, builds>>

migVars == <<live, models, aggressive, autoBackup, plan, mpc, mi, migLog, mret,
             plan2, now>>

relVars == <<relData, related, entry, rpc, relResult, rret>>

buildVars == <<bquery, bdialect, bpc, bresult>>

vars == <<txVars, execVars, migVars, relVars, buildVars>>

-----------------------------------------------------------------------------
(* Bounds *)

MaxOps == 2
FirstId == 2
MaxRows == 3
MaxThreshold == 2
MaxNow == 1
MaxRecs == 2
MaxKey == 2
MaxWhere == 2

-----------------------------------------------------------------------------
(* Strings and dynamically typed values *)

\* strings.HasPrefix
HasPrefix(s, p) == Len(s) >= Len(p) /\ SubSeq(s, 1, Len(p)) = p

\* strings.Index for a one-character separator: 0 when absent
IndexOf(s, c) ==
    IF \E k \in 1..Len(s) : s[k] = c
    THEN CHOOSE k \in 1..Len(s) : s[k] = c /\ \A j \in 1..(k-1) : s[j] # c
    ELSE 0

\* strings.SplitN(s, sep, 2)
SplitN2(s, sep) ==
    LET k == IndexOf(s, sep)
    IN IF k = 0 THEN <<s>>
       ELSE <<SubSeq(s, 1, k - 1), SubSeq(s, k + 1, Len(s))>>

StrV(s) == [t |-> "str", s |-> s, n |-> 0]
NumV(n) == [t |-> "num", s |-> <<>>, n |-> n]

FieldId == <<"i", "d">>
FieldAffected == <<"a", "f", "f", "e", "c", "t", "e", "d">>
FieldCount == <<"c", "o", "u", "n", "t">>
ColN == <<"n">>

\* "$" + alias + "." + field
RefStr(alias, field) == <<"$">> \o alias \o <<".">> \o field

AliasNone == <<>>
AliasA == <<"a">>
AliasAB == <<"a", ".", "b">>

-----------------------------------------------------------------------------
(* Query, Condition and Result *)

Cond(v) == [Field |-> "id", Op |-> "=", Value |-> v, And |-> <<>>]

\* a nil Value
NoValue == [t |-> "nil", s |-> <<>>, n |-> 0]

\* A condition that is a nested AND-group
Group(conds) == [Field |-> "", Op |-> "", Value |-> NoValue, And |-> conds]
Entry(v) == [col |-> "v", val |-> v]

Op(action, as, data, where) ==
    [Action |-> action, As |-> as, Data |-> data, Where |-> where]

RefAId == StrV(RefStr(AliasA, FieldId))
RefABId == StrV(RefStr(AliasAB, FieldId))
RefAN == StrV(RefStr(AliasA, ColN))
Lit == NumV(7)

\* The steps a caller may put in a transaction.
OpSet ==
    { Op("create", a, d, <<>>) :
        a \in {AliasNone, AliasA},
        d \in {{}, {Entry(Lit)}, {Entry(RefAId)}, {Entry(RefABId)}} }
    \cup
    { Op("create", AliasAB, {Entry(Lit)}, <<>>) }
    \cup
    { Op("update", AliasNone, d, w) :
        d \in {{}, {Entry(Lit)}}, w \in {<<>>, <<Cond(RefAId)>>} }
    \cup
    { Op("delete", AliasNone, {}, <<Cond(RefABId)>>),
      Op("find", AliasA, {}, <<>>),
      Op("find", AliasNone, {}, <<Cond(RefAN)>>),
      Op("update", AliasNone, {Entry(Lit)}, <<Group(<<Cond(RefAId)>>), Cond(RefAId)>>),
      Op("count", AliasNone, {}, <<>>),
      Op("check", AliasNone, {}, <<>>),
      Op("check", AliasA, {Entry(RefAId)}, <<>>) }

NoResult ==
    [Success |-> FALSE, ID |-> 0, Affected |-> 0, Count |-> 0, Data |-> <<>>,
     Code |-> "NONE"]

ErrResult(code) == [NoResult EXCEPT !.Code = code]

-----------------------------------------------------------------------------
(* Transaction.resolveValue / resolveReferences *)

\* The alias a value names, when it parses as $alias.field and the alias has
\* a stored result; <<>> otherwise (As == "" is never stored).
ConsultedAlias(v) ==
    IF v.t # "str" THEN <<>>
    ELSE IF ~HasPrefix(v.s, <<"$">>) THEN <<>>
    ELSE LET parts == SplitN2(Tail(v.s), ".")
         IN IF Len(parts) # 2 THEN <<>>
            ELSE IF parts[1] \notin DOMAIN results THEN <<>>
            ELSE parts[1]

\* Mutant of IdOfResult: the `id` case answers the affected-row count.
IdOfResultAffected(result) == NumV(result.Affected)

\* case "id": return result.ID
IdOfResult(result) == NumV(result.ID)

resolveValue(v) ==
    IF v.t # "str" THEN v
    ELSE IF ~HasPrefix(v.s, <<"$">>) THEN v
    ELSE LET parts == SplitN2(Tail(v.s), ".")
         IN IF Len(parts) # 2 THEN v
            ELSE LET alias == parts[1]
                     field == parts[2]
                 IN IF alias \notin DOMAIN results THEN v
                    ELSE LET result == results[alias].res
                         IN CASE field = FieldId -> IdOfResult(result)
                              [] field = FieldAffected -> NumV(result.Affected)
                              [] field = FieldCount -> NumV(result.Count)
                              [] OTHER ->
                                  IF Len(result.Data) > 0
                                     /\ \E e \in result.Data[1] : e.col = field
                                  THEN (CHOOSE e \in result.Data[1] : e.col = field).val
                                  ELSE v

resolveReferences(query) ==
    [query EXCEPT
        !.Data = {[col |-> e.col, val |-> resolveValue(e.val)] : e \in query.Data},
        !.Where = [k \in 1..Len(query.Where) |->
                     [query.Where[k] EXCEPT !.Value = resolveValue(query.Where[k].Value)]]]

\* Mutant of OperationsAfter: the resolved values are written into the
\* caller's operation.
OperationsAfterInPlace(list, k, resolved) == [list EXCEPT ![k] = resolved]

\* query.Operations after resolveReferences has run for its k-th element:
\* `result := query` is a copy of the struct, the resolved values go into the
\* fresh `newData` and `newWhere`, so the caller's list is as it was.
OperationsAfter(list, k, resolved) == list

\* The values a query carries, in payload and top-level predicates.
ValuesOf(query) ==
    {e.val : e \in query.Data} \cup {query.Where[k].Value : k \in 1..Len(query.Where)}

\* The steps whose stored results resolving `query` consults.
ConsultedSteps(query) ==
    {results[ConsultedAlias(v)].src : v \in {w \in ValuesOf(query) : ConsultedAlias(w) # <<>>}}

-----------------------------------------------------------------------------
(* SQLBuilder.Build, as far as the coordinator and the executor depend on it:
   whether it fails, and the parameters it binds. *)

BuildActions == {"find", "create", "create_batch", "update", "delete", "count", "aggregate"}

\* buildCondition on a scalar Value: IN / NOT IN / BETWEEN need an array,
\* EXISTS needs a subquery.
CondError(cond) == cond.Op \in {"in", "not_in", "between", "exists"}

\* buildConditions: a nested group fails when one of its members does
RECURSIVE CondsError(_)
CondsError(conds) ==
    \E k \in 1..Len(conds) :
        IF Len(conds[k].And) > 0 THEN CondsError(conds[k].And) ELSE CondError(conds[k])

WhereError(query) == CondsError(query.Where)

BuildError(query) ==
    CASE query.Action \notin BuildActions -> TRUE
      [] query.Action = "create" -> query.Data = {}
      [] query.Action = "update" -> query.Data = {} \/ WhereError(query)
      [] OTHER -> WhereError(query)

RECURSIVE SetToSeq(_)
SetToSeq(S) ==
    IF S = {} THEN <<>>
    ELSE LET x == CHOOSE y \in S : TRUE IN <<x>> \o SetToSeq(S \ {x})

\* buildConditions: the values bound, those of a nested group in its place
RECURSIVE ParamsOfConds(_)
ParamsOfConds(conds) ==
    IF conds = <<>> THEN <<>>
    ELSE (IF Len(Head(conds).And) > 0 THEN ParamsOfConds(Head(conds).And)
          ELSE <<Head(conds).Value>>)
         \o ParamsOfConds(Tail(conds))

WhereParams(query) == ParamsOfConds(query.Where)

BuildParams(query) ==
    CASE query.Action = "create" -> [k \in 1..Cardinality(query.Data) |-> SetToSeq(query.Data)[k].val]
      [] query.Action = "update" ->
            [k \in 1..Cardinality(query.Data) |-> SetToSeq(query.Data)[k].val] \o WhereParams(query)
      [] OTHER -> WhereParams(query)

-----------------------------------------------------------------------------
(* executeTransactionInternal *)

TxActions == {"create", "update", "delete", "find"}
WriteActions == {"create", "update", "delete"}

\* Mutant of OpIndex: the loop walks the list from its end.
OpIndexReversed(k) == Len(ops) + 1 - k

\* The position in query.Operations that iteration i of the loop handles.
OpIndex(k) == k

\* tx.Rollback(): ends an open transaction; ErrTxDone (no effect) otherwise.
RollbackState(st) == IF st = "open" THEN "rolledback" ELSE st

\* Mutant of VisibleAfterRollback: the failure branch commits instead.
VisibleAfterRollbackKeeps(c, p) == c \cup p

\* What is visible in the database once a transaction holding the writes p
\* has been rolled back.
VisibleAfterRollback(c, p) == c

\* What is visible once it has been committed.
VisibleAfterCommit(c, p) == c \cup p

\* A database call on the transaction's handle fails when the context is
\* done or the transaction has ended; it may also fail on its own.
MustFail == ctxDone \/ txState # "open"

Advance ==
    /\ i' = i + 1
    /\ txpc' = IF i + 1 > Len(ops) THEN "commit" ELSE "loop"

LogEntry(idx, q, srcs, ok, res, genId, wrote) ==
    [idx |-> idx, op |-> q, params |-> IF BuildError(q) THEN <<>> ELSE BuildParams(q),
     built |-> ~BuildError(q), srcs |-> srcs, ok |-> ok, res |-> res, genId |-> genId, wrote |-> wrote]

\* Operations that the documentation's examples name with the key `ref`
RefOpSet ==
    { Op("create", AliasA, {Entry(Lit)}, <<>>),
      Op("create", AliasNone, {Entry(RefAId)}, <<>>),
      Op("update", AliasNone, {Entry(Lit)}, <<Cond(RefAId)>>) }

JsonOps(key) == IF key = "as" THEN OpSet ELSE RefOpSet

\* ParseQuery: json.Unmarshal fills Query.As from the key `as` (its struct tag)
\* and ignores a key it does not know
ParseOp(key, jop) == [jop EXCEPT !.As = IF key = "as" THEN @ ELSE AliasNone]

TxInit ==
    /\ \E key \in {"as", "ref"} :
          \E jops \in UNION {[1..n -> JsonOps(key)] : n \in 0..MaxOps} :
              /\ ops = [k \in 1..Len(jops) |-> ParseOp(key, jops[k])]
              /\ jql = [key |-> key, names |-> [k \in 1..Len(jops) |-> jops[k].As]]
    /\ txpc = "start"
    /\ i = 1
    /\ txState = "none"
    /\ results = <<>>
    /\ stepLog = <<>>
    /\ committed = {}
    /\ pending = {}
    /\ ctxDone = FALSE
    /\ cancelMidTx = FALSE
    /\ ret = "none"
    /\ rollbackCalled = FALSE
    /\ nextId = FirstId
    /\ returning \in BOOLEAN

\* len(query.Operations) == 0
TxNoOperations ==
    /\ txpc = "start"
    /\ Len(ops) = 0
    /\ ret' = "NO_OPERATIONS"
    /\ txpc' = "done"
    /\ UNCHANGED <<ops, i, txState, results, stepLog, committed, pending, ctxDone,
                   cancelMidTx, rollbackCalled, nextId, returning, jql>>

\* db.sqlDB.BeginTx(ctx, nil)
TxBegin ==
    /\ txpc = "start"
    /\ Len(ops) > 0
    /\ \/ /\ ~ctxDone
          /\ txState' = "open"
          /\ txpc' = "loop"
          /\ ret' = ret
       \/ /\ txState' = txState
          /\ txpc' = "done"
          /\ ret' = "TX_BEGIN_ERROR"
    /\ UNCHANGED <<ops, i, results, stepLog, committed, pending, ctxDone,
                   cancelMidTx, rollbackCalled, nextId, returning, jql>>

\* The `if !result.Success` branch: tx.Rollback() and return.
FailStep(q, srcs, code) ==
    /\ stepLog' = Append(stepLog, LogEntry(OpIndex(i), q, srcs, FALSE, ErrResult(code), 0, FALSE))
    /\ txState' = RollbackState(txState)
    /\ committed' = VisibleAfterRollback(committed, pending)
    /\ pending' = {}
    /\ rollbackCalled' = TRUE
    /\ ret' = "TX_OPERATION_ERROR"
    /\ txpc' = "done"
    /\ ops' = OperationsAfter(ops, OpIndex(i), q)
    /\ UNCHANGED <<i, results, ctxDone, cancelMidTx, nextId, returning, jql>>

\* The rest of the loop body after a successful step.
SucceedStep(q, srcs, res, genId, wrote) ==
    /\ stepLog' = Append(stepLog, LogEntry(OpIndex(i), q, srcs, TRUE, res, genId, wrote))
    /\ results' = IF ops[OpIndex(i)].As # <<>>
                  THEN (ops[OpIndex(i)].As :> [res |-> res, src |-> OpIndex(i)]) @@ results
                  ELSE results
    /\ pending' = IF wrote THEN pending \cup {OpIndex(i)} ELSE pending
    /\ Advance
    /\ ops' = OperationsAfter(ops, OpIndex(i), q)
    /\ UNCHANGED <<txState, committed, ctxDone, cancelMidTx, ret,
                   rollbackCalled, returning, jql>>

\* op.Action == "check": continue
TxStepCheck ==
    /\ txpc = "loop"
    /\ ops[OpIndex(i)].Action = "check"
    /\ Advance
    /\ UNCHANGED <<ops, txState, results, stepLog, committed, pending, ctxDone,
                   cancelMidTx, ret, rollbackCalled, nextId, returning, jql>>

\* executeOperation: builder.Build() fails
TxStepBuildError ==
    /\ txpc = "loop"
    /\ ops[OpIndex(i)].Action # "check"
    /\ LET q == resolveReferences(ops[OpIndex(i)])
       IN /\ BuildError(q)
          /\ FailStep(q, ConsultedSteps(ops[OpIndex(i)]), "BUILD_ERROR")

\* executeOperation: the default branch of the switch
TxStepUnsupported ==
    /\ txpc = "loop"
    /\ ops[OpIndex(i)].Action # "check"
    /\ LET q == resolveReferences(ops[OpIndex(i)])
       IN /\ ~BuildError(q)
          /\ q.Action \notin TxActions
          /\ FailStep(q, ConsultedSteps(ops[OpIndex(i)]), "UNSUPPORTED_TX_ACTION")

\* executeCreate / executeWrite / executeFind: the database call fails
TxStepExecError ==
    /\ txpc = "loop"
    /\ ops[OpIndex(i)].Action # "check"
    /\ LET q == resolveReferences(ops[OpIndex(i)])
       IN /\ ~BuildError(q)
          /\ q.Action \in TxActions
          /\ FailStep(q, ConsultedSteps(ops[OpIndex(i)]),
                      CASE q.Action = "create" -> "CREATE_ERROR"
                        [] q.Action = "find" -> "QUERY_ERROR"
                        [] OTHER -> "WRITE_ERROR")

\* executeCreate succeeds: the database inserts a row and generates its id
TxStepCreate ==
    /\ txpc = "loop"
    /\ ~MustFail
    /\ LET q == resolveReferences(ops[OpIndex(i)])
       IN /\ ~BuildError(q)
          /\ q.Action = "create"
          /\ nextId' = nextId + 1
          /\ SucceedStep(q, ConsultedSteps(ops[OpIndex(i)]),
                         [NoResult EXCEPT !.Success = TRUE, !.ID = nextId, !.Affected = 1,
                                          !.Code = "OK"],
                         nextId, TRUE)

\* executeCreate with RETURNING: the scan ends with sql.ErrNoRows, which the
\* code takes for success with lastID 0
TxStepCreateNoRows ==
    /\ txpc = "loop"
    /\ ~MustFail
    /\ returning
    /\ LET q == resolveReferences(ops[OpIndex(i)])
       IN /\ ~BuildError(q)
          /\ q.Action = "create"
          /\ nextId' = nextId
          /\ SucceedStep(q, ConsultedSteps(ops[OpIndex(i)]),
                         [NoResult EXCEPT !.Success = TRUE, !.ID = 0, !.Affected = 1,
                                          !.Code = "OK"],
                         0, FALSE)

\* executeWrite succeeds
TxStepWrite ==
    /\ txpc = "loop"
    /\ ~MustFail
    /\ LET q == resolveReferences(ops[OpIndex(i)])
       IN /\ ~BuildError(q)
          /\ q.Action \in {"update", "delete"}
          /\ nextId' = nextId
          /\ \E affected \in 0..1 :
                SucceedStep(q, ConsultedSteps(ops[OpIndex(i)]),
                            [NoResult EXCEPT !.Success = TRUE, !.Affected = affected,
                                             !.Code = "OK"],
                            0, TRUE)

FoundRows == {<<>>, <<{[col |-> ColN, val |-> NumV(9)]}>>}

\* executeFind succeeds
TxStepFind ==
    /\ txpc = "loop"
    /\ ~MustFail
    /\ LET q == resolveReferences(ops[OpIndex(i)])
       IN /\ ~BuildError(q)
          /\ q.Action = "find"
          /\ nextId' = nextId
          /\ \E data \in FoundRows :
                SucceedStep(q, ConsultedSteps(ops[OpIndex(i)]),
                            [NoResult EXCEPT !.Success = TRUE, !.Data = data,
                                             !.Count = Len(data), !.Code = "OK"],
                            0, FALSE)

\* tx.Commit(): returns ctx.Err() at once when the context is done (the
\* transaction is left to the sql package); else the driver commits or fails.
TxCommit ==
    /\ txpc = "commit"
    /\ \/ /\ ctxDone
          /\ ret' = "TX_COMMIT_ERROR"
          /\ UNCHANGED <<txState, committed, pending>>
       \/ /\ ~ctxDone
          /\ txState = "open"
          /\ txState' = "committed"
          /\ committed' = VisibleAfterCommit(committed, pending)
          /\ pending' = {}
          /\ ret' = "SUCCESS"
       \/ /\ ~ctxDone
          /\ txState = "open"
          /\ txState' = "commitfailed"
          /\ committed' = committed
          /\ pending' = {}
          /\ ret' = "TX_COMMIT_ERROR"
    /\ txpc' = "done"
    /\ UNCHANGED <<ops, i, results, stepLog, ctxDone, cancelMidTx, rollbackCalled,
                   nextId, returning, jql>>

\* The caller cancels the context, or its deadline passes.
CtxCancel ==
    /\ ~ctxDone
    /\ txpc # "done"
    /\ ctxDone' = TRUE
    /\ cancelMidTx' = (txState = "open")
    /\ UNCHANGED <<ops, txpc, i, txState, results, stepLog, committed, pending, ret,
                   rollbackCalled, nextId, returning, jql>>

\* database/sql's awaitDone goroutine: rolls the transaction back some time
\* after its context is done.
AwaitDone ==
    /\ ctxDone
    /\ txState = "open"
    /\ txState' = "rolledback"
    /\ pending' = {}
    /\ UNCHANGED <<ops, txpc, i, results, stepLog, committed, ctxDone, cancelMidTx,
                   ret, rollbackCalled, nextId, returning, jql>>

-----------------------------------------------------------------------------
(* Query.Validate *)

TableActions == {"find", "count", "delete", "update", "aggregate"}

\* Mutant of ValidateError: only the action is checked.
ValidateErrorActionOnly(q) ==
    CASE q.Action = "" -> TRUE
      [] q.Action \in TableActions -> FALSE
      [] q.Action \in {"create", "create_batch"} -> FALSE
      [] q.Action = "transaction" -> FALSE
      [] q.Action = "list_tables" -> FALSE
      [] q.Action = "describe" -> FALSE
      [] q.Action \in {"explain", "validate"} -> FALSE
      [] OTHER -> TRUE

ValidateError(q) ==
    CASE q.Action = "" -> TRUE
      [] q.Action \in TableActions -> q.Table = ""
      [] q.Action = "create" -> q.Table = "" \/ q.Data = {}
      [] q.Action = "create_batch" -> q.Table = "" \/ q.DataBatch = 0
      [] q.Action = "transaction" -> q.Operations = 0
      [] q.Action = "list_tables" -> FALSE
      [] q.Action = "describe" -> q.Table = ""
      [] q.Action \in {"explain", "validate"} -> q.QueryToExplain = <<>>
      [] OTHER -> TRUE

-----------------------------------------------------------------------------
(* DB.ExecuteQuery, Executor.ExecuteUpdate / ExecuteDelete / executeWriteQuery *)

\* A Query; DataBatch and Operations are the lengths of the slices, and
\* QueryToExplain is <<>> for nil and <<q>> for a pointer to q.
EQueryOf(action, table, data, where, batch, nops, nested) ==
    [Action |-> action, Table |-> table, Data |-> data, Where |-> where,
     DataBatch |-> batch, Operations |-> nops, QueryToExplain |-> nested]

EQuery(action, table, data, where) == EQueryOf(action, table, data, where, 0, 0, <<>>)

CondIn(v) == [Field |-> "id", Op |-> "in", Value |-> v, And |-> <<>>]

NoQuery == EQuery("", "", {}, <<>>)

\* The values of the `query` field of an explain or validate request.
NestedSet == {<<>>, <<EQuery("find", "users", {}, <<>>)>>, <<NoQuery>>}

\* The queries a caller may pass.
QuerySet ==
    { EQuery(a, t, d, w) :
        a \in {"", "find", "create", "update", "delete", "count", "list_tables", "bogus"},
        t \in {"", "users"},
        d \in {{}, {Entry(Lit)}},
        w \in {<<>>, <<Cond(Lit)>>, <<CondIn(Lit)>>} }
    \cup
    { EQueryOf(a, t, {}, <<>>, b, 0, <<>>) :
        a \in {"create_batch", "aggregate", "describe"}, t \in {"", "users"}, b \in 0..1 }
    \cup
    { EQueryOf("transaction", "", {}, <<>>, 0, n, <<>>) : n \in 0..1 }
    \cup
    { EQueryOf(a, "", {}, <<>>, 0, 0, x) : a \in {"explain", "validate"}, x \in NestedSet }

DestructiveActions == {"update", "delete"}

\* `e.db.config.Security.ConfirmDestructive && len(query.Where) == 0`
GateApplies(q) == confirmDestructive /\ Len(q.Where) = 0

\* `err == nil && count > int64(e.db.config.Security.ConfirmThreshold)`
\* the gate's COUNT query, answered with an error
CountFailed == "COUNT (error)"

GateBlocks(err, count) == ~err /\ count > confirmThreshold

StatementOf(action) ==
    CASE action \in {"find", "aggregate"} -> "SELECT"
      [] action \in {"create", "create_batch"} -> "INSERT"
      [] action = "update" -> "UPDATE"
      [] action = "delete" -> "DELETE"
      [] action = "count" -> "COUNT"
      [] OTHER -> "NONE"

\* What db.hooks holds for the table: nothing; a before- and an after-hook for
\* each of create, update, delete and find; or the same with before-hooks that
\* return an error.
HookModes == {"none", "registered", "failing"}

HookedActions == {"create", "update", "delete", "find"}

ExecIdle ==
    /\ eq = NoQuery
    /\ epc = "idle"
    /\ rows = 0
    /\ rowsAtCall = 0
    /\ confirmDestructive = FALSE
    /\ confirmThreshold = 0
    /\ dbLog = <<>>
    /\ mutated = 0
    /\ eres = "none"
    /\ hookMode = "none"
    /\ softDelete = FALSE
    /\ builds = 0

\* No single query is running; the configuration is DefaultConfig's
\* (ConfirmDestructive: true) and the table the transaction's steps target
\* holds more rows than ConfirmThreshold.
ExecConfigured ==
    /\ eq = NoQuery
    /\ epc = "idle"
    /\ rows = MaxRows
    /\ rowsAtCall = MaxRows
    /\ confirmDestructive = TRUE
    /\ confirmThreshold = MaxThreshold
    /\ dbLog = <<>>
    /\ mutated = 0
    /\ eres = "none"
    /\ hookMode = "none"
    /\ softDelete = FALSE
    /\ builds = 0

ExecInit ==
    /\ eq \in QuerySet
    /\ epc = "start"
    /\ rows \in 0..MaxRows
    /\ rowsAtCall = rows
    /\ confirmDestructive \in BOOLEAN
    /\ confirmThreshold \in 0..MaxThreshold
    /\ dbLog = <<>>
    /\ mutated = 0
    /\ eres = "none"
    /\ hookMode \in HookModes
    /\ softDelete \in BOOLEAN
    /\ builds = 0

\* query.Validate() fails
ExecValidateError ==
    /\ epc = "start"
    /\ ValidateError(eq)
    /\ eres' = "VALIDATION_ERROR"
    /\ epc' = "done"
    /\ UNCHANGED <<eq, rows, rowsAtCall, confirmDestructive, confirmThreshold, hookMode,
                   softDelete, dbLog, mutated, builds>>

\* the switch of ExecuteQuery; a transaction goes to the coordinator
ExecDispatch ==
    /\ epc = "start"
    /\ ~ValidateError(eq)
    /\ epc' = CASE eq.Action \in DestructiveActions /\ GateApplies(eq) -> "gate"
                [] eq.Action \in DestructiveActions -> "write"
                [] eq.Action \in {"find", "create", "create_batch", "count",
                                  "aggregate"} -> "exec"
                [] eq.Action = "explain" -> "explain"
                [] eq.Action = "validate" -> "validate"
                [] eq.Action = "describe" -> "describe"
                [] OTHER -> "done"
    /\ eres' = CASE eq.Action = "list_tables" -> "OK"
                 [] eq.Action = "transaction" -> "TRANSACTION"
                 [] OTHER -> eres
    /\ UNCHANGED <<eq, rows, rowsAtCall, confirmDestructive, confirmThreshold, hookMode,
                   softDelete, dbLog, mutated, builds>>

\* getAffectedCount and the test on its answer
ExecGateCount ==
    /\ epc = "gate"
    /\ builds' = builds + 1
    /\ \E err \in BOOLEAN :
          LET count == IF err THEN 0 ELSE rows
          IN /\ dbLog' = Append(dbLog, IF err THEN CountFailed ELSE "COUNT")
             /\ IF GateBlocks(err, count)
                THEN /\ eres' = "CONFIRM_REQUIRED"
                     /\ epc' = "done"
                ELSE /\ eres' = eres
                     /\ epc' = "write"
    /\ UNCHANGED <<eq, rows, rowsAtCall, confirmDestructive, confirmThreshold, hookMode,
                   softDelete, mutated>>

\* executeWriteQuery: builder.Build() fails
ExecWriteBuildError ==
    /\ epc = "write"
    /\ builds' = builds + 1
    /\ BuildError(eq)
    /\ eres' = "BUILD_ERROR"
    /\ epc' = "done"
    /\ UNCHANGED <<eq, rows, rowsAtCall, confirmDestructive, confirmThreshold, hookMode,
                   softDelete, dbLog, mutated>>

\* executeWriteQuery: ExecContext fails
ExecWriteError ==
    /\ epc = "write"
    /\ builds' = builds + 1
    /\ ~BuildError(eq)
    /\ dbLog' = Append(dbLog, StatementOf(eq.Action))
    /\ eres' = "SQL_ERROR"
    /\ epc' = "done"
    /\ UNCHANGED <<eq, rows, rowsAtCall, confirmDestructive, confirmThreshold, hookMode,
                   softDelete, mutated>>

\* executeWriteQuery: the statement runs; without predicates it touches every row
ExecWrite ==
    /\ epc = "write"
    /\ builds' = builds + 1
    /\ ~BuildError(eq)
    /\ dbLog' = Append(dbLog, StatementOf(eq.Action))
    /\ \E affected \in 0..rows :
          /\ (Len(eq.Where) = 0 => affected = rows)
          /\ mutated' = affected
          /\ rows' = IF eq.Action = "delete" THEN rows - affected ELSE rows
    /\ eres' = "OK"
    /\ epc' = "done"
    /\ UNCHANGED <<eq, rowsAtCall, confirmDestructive, confirmThreshold, hookMode,
                   softDelete>>

\* ExecuteFind / ExecuteCreate / ExecuteCreateBatch / ExecuteCount /
\* ExecuteAggregate: builder.Build() fails
ExecOtherBuildError ==
    /\ epc = "exec"
    /\ builds' = builds + 1
    /\ BuildError(eq)
    /\ eres' = "BUILD_ERROR"
    /\ epc' = "done"
    /\ UNCHANGED <<eq, rows, rowsAtCall, confirmDestructive, confirmThreshold, hookMode,
                   softDelete, dbLog, mutated>>

\* ExecuteFind / ExecuteCreate / ExecuteCreateBatch / ExecuteCount /
\* ExecuteAggregate: the statement runs or fails
ExecOther ==
    /\ epc = "exec"
    /\ builds' = builds + 1
    /\ ~BuildError(eq)
    /\ dbLog' = Append(dbLog, StatementOf(eq.Action))
    /\ \E err \in BOOLEAN :
          /\ eres' = IF err THEN "SQL_ERROR" ELSE "OK"
          /\ rows' = IF ~err /\ eq.Action \in {"create", "create_batch"}
                     THEN rows + 1 ELSE rows
    /\ epc' = "done"
    /\ UNCHANGED <<eq, rowsAtCall, confirmDestructive, confirmThreshold, hookMode,
                   softDelete, mutated>>

\* executeExplain: without a nested query MISSING_QUERY; otherwise the nested
\* query is compiled and its SQL returned
ExecExplain ==
    /\ epc = "explain"
    /\ IF eq.QueryToExplain = <<>>
       THEN /\ eres' = "MISSING_QUERY"
            /\ builds' = builds
       ELSE /\ eres' = IF BuildError(eq.QueryToExplain[1]) THEN "BUILD_ERROR" ELSE "OK"
            /\ builds' = builds + 1
    /\ epc' = "done"
    /\ UNCHANGED <<eq, rows, rowsAtCall, confirmDestructive, confirmThreshold, hookMode,
                   softDelete, dbLog, mutated>>

\* executeValidate: the nested query is validated
ExecValidate ==
    /\ epc = "validate"
    /\ eres' = IF eq.QueryToExplain # <<>> /\ ValidateError(eq.QueryToExplain[1])
               THEN "VALIDATION_ERROR" ELSE "OK"
    /\ epc' = "done"
    /\ UNCHANGED <<eq, rows, rowsAtCall, confirmDestructive, confirmThreshold, hookMode,
                   softDelete, dbLog, mutated, builds>>

\* executeDescribe: registry.GetSchema finds the table or does not
ExecDescribe ==
    /\ epc = "describe"
    /\ \E found \in BOOLEAN : eres' = IF found THEN "OK" ELSE "TABLE_NOT_FOUND"
    /\ epc' = "done"
    /\ UNCHANGED <<eq, rows, rowsAtCall, confirmDestructive, confirmThreshold, hookMode,
                   softDelete, dbLog, mutated, builds>>

\* another caller inserts a row into the same table
OtherInsert ==
    /\ epc \in {"gate", "write"}
    /\ rows < MaxRows + 1
    /\ rows' = rows + 1
    /\ UNCHANGED <<eq, epc, rowsAtCall, confirmDestructive, confirmThreshold, hookMode,
                   softDelete, dbLog, mutated, eres, builds>>

TxIdle ==
    /\ ops = <<>>
    /\ txpc = "idle"
    /\ i = 1
    /\ txState = "none"
    /\ results = <<>>
    /\ stepLog = <<>>
    /\ committed = {}
    /\ pending = {}
    /\ ctxDone = FALSE
    /\ cancelMidTx = FALSE
    /\ ret = "none"
    /\ rollbackCalled = FALSE
    /\ nextId = FirstId
    /\ returning = FALSE
    /\ jql = [key |-> "as", names |-> <<>>]

-----------------------------------------------------------------------------
(* Migrator: the schema, Plan and Execute *)

TblUsers == <<"u", "s", "e", "r", "s">>
TblOrders == <<"o", "r", "d", "e", "r", "s">>
TblLegacy == <<"l", "e", "g", "a", "c", "y">>
TblPgStat == <<"p", "g", "_", "s", "t", "a", "t">>
ColumnId == <<"i", "d">>
ColumnName == <<"n", "a", "m", "e">>
NoName == <<>>

TypeInteger == <<"I", "N", "T", "E", "G", "E", "R">>
TypeText == <<"T", "E", "X", "T">>
TypeBigint == <<"B", "I", "G", "I", "N", "T">>
TypeBigintLower == <<"b", "i", "g", "i", "n", "t">>
TypeDecimal == <<"D", "E", "C", "I", "M", "A", "L">>
TypeNumeric == <<"n", "u", "m", "e", "r", "i", "c">>

\* strings.ToUpper on the letters that occur in the modelled type names
UpperChar(c) ==
    CASE
         c = "b" -> "B"
      [] c = "c" -> "C"
      [] c = "e" -> "E"
      [] c = "g" -> "G"
      [] c = "i" -> "I"
      [] c = "m" -> "M"
      [] c = "n" -> "N"
      [] c = "r" -> "R"
      [] c = "t" -> "T"
      [] c = "u" -> "U"
      [] c = "x" -> "X"
      [] OTHER -> c

ToUpper(s) == [k \in 1..Len(s) |-> UpperChar(s[k])]

\* strings.Contains
Contains(s, sub) == \E k \in 0..(Len(s) - Len(sub)) : SubSeq(s, k + 1, k + Len(sub)) = sub

equivalences ==
    {
      [key |-> <<"I", "N", "T", "E", "G", "E", "R">>,
       values |-> {<<"I", "N", "T">>,
                   <<"I", "N", "T", "4">>,
                   <<"S", "E", "R", "I", "A", "L">>}],
      [key |-> <<"B", "I", "G", "I", "N", "T">>,
       values |-> {<<"I", "N", "T", "8">>,
                   <<"B", "I", "G", "S", "E", "R", "I", "A", "L">>}],
      [key |-> <<"V", "A", "R", "C", "H", "A", "R">>,
       values |-> {<<"C", "H", "A", "R", "A", "C", "T", "E", "R", " ", "V", "A", "R", "Y", "I", "N", "G">>,
                   <<"T", "E", "X", "T">>}],
      [key |-> <<"B", "O", "O", "L", "E", "A", "N">>,
       values |-> {<<"B", "O", "O", "L">>}],
      [key |-> <<"T", "I", "M", "E", "S", "T", "A", "M", "P">>,
       values |-> {<<"T", "I", "M", "E", "S", "T", "A", "M", "P", " ", "W", "I", "T", "H", " ", "T", "I", "M", "E", " ", "Z", "O", "N", "E">>,
                   <<"T", "I", "M", "E", "S", "T", "A", "M", "P", "T", "Z">>}]
    }

typesCompatibleUpper(dbType, modelType) ==
    \/ \E e \in equivalences :
          /\ Contains(dbType, e.key) \/ Contains(modelType, e.key)
          /\ \E v \in e.values : Contains(dbType, v) \/ Contains(modelType, v)
    \/ HasPrefix(dbType, modelType)
    \/ HasPrefix(modelType, dbType)

typesCompatible(dbType, modelType) == typesCompatibleUpper(ToUpper(dbType), ToUpper(modelType))

systemPrefixes == {<<"_", "b", "a", "c", "k", "u", "p", "_">>, <<"p", "g", "_">>, <<"s", "q", "l", "_">>, <<"_", "g", "o", "o", "r", "m", "_">>}

\* Mutant of isSystemTable: no name counts as a system table.
isSystemTableNone(name) == FALSE

isSystemTable(name) == \E prefix \in systemPrefixes : HasPrefix(name, prefix)

\* the last digit of the seconds, by clock value
SecondsDigit == <<"5", "6", "7">>

\* time.Now().Format("20060102_150405")
Timestamp ==
    <<"2", "0", "2", "6", "0", "1", "0", "2", "_", "1", "5", "0", "4", "0">>
        \o <<SecondsDigit[now + 1]>>

generateBackupName(table, column) ==
    IF column # NoName
    THEN <<"_", "b", "a", "c", "k", "u", "p", "_">> \o table \o <<"_">> \o column \o <<"_">> \o Timestamp
    ELSE <<"_", "b", "a", "c", "k", "u", "p", "_">> \o table \o <<"_">> \o Timestamp

\* Column maps: column name -> SQL type
Cols1(c, t) == (c :> t)
Cols2(t) == (ColumnId :> TypeInteger) @@ (ColumnName :> t)

LiveNameTypes == {TypeText, TypeBigintLower}
ModelNameTypes == {TypeText, TypeBigint, TypeDecimal}

ColumnMaps(nameTypes) ==
    {Cols1(ColumnId, TypeInteger)}
        \cup {Cols1(ColumnName, t) : t \in nameTypes}
        \cup {Cols2(t) : t \in nameTypes}

\* The live schemas and the registered models the migrator is run against.
LiveSchemas ==
    { s \in UNION {[T -> ColumnMaps(LiveNameTypes)] :
                      T \in SUBSET {TblUsers, TblOrders, TblLegacy, TblPgStat}} :
        /\ \A t \in DOMAIN s \cap {TblLegacy, TblPgStat} : s[t] = Cols1(ColumnId, TypeInteger)
        /\ TblOrders \in DOMAIN s => s[TblOrders] \in {Cols1(ColumnId, TypeInteger), Cols2(TypeText)} }

ModelSets ==
    { s \in UNION {[T -> ColumnMaps(ModelNameTypes)] : T \in SUBSET {TblUsers, TblOrders}} :
        TblOrders \in DOMAIN s => s[TblOrders] = Cols1(ColumnId, TypeInteger) }

\* meta.Fields, in declaration order
FieldOrder == <<ColumnId, ColumnName>>

Fields(t) == SelectSeq(FieldOrder, LAMBDA c : c \in DOMAIN models[t])

\* The iteration orders of a Go map or of a slice built from one
Perms(S) == {p \in [1..Cardinality(S) -> S] : \A a, b \in 1..Cardinality(S) : a # b => p[a] # p[b]}

RECURSIVE Concat(_)
Concat(ss) == IF ss = <<>> THEN <<>> ELSE Head(ss) \o Concat(Tail(ss))

Change(action, table, column, oldType, newType, backupTable, destructive) ==
    [Action |-> action, Table |-> table, Column |-> column, OldType |-> oldType,
     NewType |-> newType, BackupTable |-> backupTable, Destructive |-> destructive]

CreateTableChange(t) == Change("CREATE_TABLE", t, NoName, NoName, NoName, NoName, FALSE)

AddColumnChange(t, c) == Change("ADD_COLUMN", t, c, NoName, models[t][c], NoName, FALSE)

ModifyColumnChange(t, c) ==
    Change("MODIFY_COLUMN", t, c, live[t][c], models[t][c], NoName, TRUE)

DropTableChange(t) == Change("DROP_TABLE", t, NoName, NoName, NoName, NoName, TRUE)

DropColumnChange(t, c) ==
    Change("DROP_COLUMN", t, c, NoName, NoName, generateBackupName(t, c), TRUE)

\* the changes Plan emits for the fields of one table that is both declared and live
FieldChanges(t) ==
    Concat([f \in 1..Len(Fields(t)) |->
              LET c == Fields(t)[f]
              IN IF c \notin DOMAIN live[t] THEN <<AddColumnChange(t, c)>>
                 ELSE IF ~typesCompatible(live[t][c], models[t][c])
                      THEN <<ModifyColumnChange(t, c)>>
                      ELSE <<>>])

\* the DROP_COLUMN changes of one table, its live columns visited in order cord
ColumnDrops(t, cord) ==
    Concat([k \in 1..Len(cord) |->
              IF cord[k] \notin DOMAIN models[t] THEN <<DropColumnChange(t, cord[k])>>
              ELSE <<>>])

TablesToCreate == DOMAIN models \ DOMAIN live
TablesInBoth == DOMAIN models \cap DOMAIN live
TablesToDrop == {t \in DOMAIN live \ DOMAIN models : ~isSystemTable(t)}

\* Plan, given the orders in which the maps are ranged over
PlanChanges(createOrd, fieldOrd, dropOrd, colTblOrd, colOrds) ==
    [k \in 1..Len(createOrd) |-> CreateTableChange(createOrd[k])]
        \o Concat([k \in 1..Len(fieldOrd) |-> FieldChanges(fieldOrd[k])])
        \o (IF aggressive
            THEN [k \in 1..Len(dropOrd) |-> DropTableChange(dropOrd[k])]
                     \o Concat([k \in 1..Len(colTblOrd) |->
                                   ColumnDrops(colTblOrd[k], colOrds[colTblOrd[k]])])
            ELSE <<>>)

Stmt(kind, change) == [kind |-> kind, change |-> change]

NonDestructiveOf(p) == SelectSeq(p, LAMBDA c : ~c.Destructive)
DestructiveOf(p) == SelectSeq(p, LAMBDA c : c.Destructive)
BackupsOf(p) == SelectSeq(DestructiveOf(p), LAMBDA c : c.BackupTable # NoName)

StmtsOf(kind, cs) == [k \in 1..Len(cs) |-> Stmt(kind, cs[k])]

\* Mutant of Schedule: the destructive loop runs first.
ScheduleDestructiveFirst(p, backup) ==
    StmtsOf("change", DestructiveOf(p))
        \o (IF backup THEN StmtsOf("backup", BackupsOf(p)) ELSE <<>>)
        \o StmtsOf("change", NonDestructiveOf(p))

\* The statements Execute sends, in the order of its three loops
Schedule(p, backup) ==
    StmtsOf("change", NonDestructiveOf(p))
        \o (IF backup THEN StmtsOf("backup", BackupsOf(p)) ELSE <<>>)
        \o StmtsOf("change", DestructiveOf(p))

WithoutKey(f, key) == [x \in DOMAIN f \ {key} |-> f[x]]

\* `data_type` of information_schema.columns for a column declared with the
\* type: PostgreSQL reports its own name of the type, numeric for DECIMAL.
ReportedType(declared) == IF declared = TypeDecimal THEN TypeNumeric ELSE declared

\* the schema after a change's SQL has run
ApplyChange(s, c) ==
    CASE c.Action = "CREATE_TABLE" ->
            (c.Table :> [col \in DOMAIN models[c.Table] |->
                            ReportedType(models[c.Table][col])]) @@ s
      [] c.Action = "ADD_COLUMN" ->
            [s EXCEPT ![c.Table] = (c.Column :> ReportedType(c.NewType)) @@ @]
      [] c.Action = "MODIFY_COLUMN" ->
            [s EXCEPT ![c.Table][c.Column] = ReportedType(c.NewType)]
      [] c.Action = "DROP_TABLE" -> WithoutKey(s, c.Table)
      [] c.Action = "DROP_COLUMN" -> [s EXCEPT ![c.Table] = WithoutKey(@, c.Column)]
      [] OTHER -> s

\* createBackup's SELECT can run: the table has the columns it names
BackupRunnable(s, c) ==
    /\ c.Table \in DOMAIN s
    /\ c.Column # NoName => {ColumnId, c.Column} \subseteq DOMAIN s[c.Table]

\* the schema after createBackup's CREATE TABLE ... AS SELECT has run
ApplyBackup(s, c) ==
    (c.BackupTable :>
        IF c.Column # NoName
        THEN [x \in {ColumnId, c.Column} |-> s[c.Table][x]]
        ELSE s[c.Table]) @@ s

MigIdle ==
    /\ live = <<>>
    /\ models = <<>>
    /\ aggressive = FALSE
    /\ autoBackup = FALSE
    /\ plan = <<>>
    /\ mpc = "idle"
    /\ mi = 1
    /\ migLog = <<>>
    /\ mret = "none"
    /\ plan2 = <<>>
    /\ now = 0

MigInit ==
    /\ live \in LiveSchemas
    /\ models \in ModelSets
    /\ aggressive \in BOOLEAN
    /\ autoBackup \in BOOLEAN
    /\ plan = <<>>
    /\ mpc = "plan"
    /\ mi = 1
    /\ migLog = <<>>
    /\ mret = "none"
    /\ plan2 = <<>>
    /\ now = 0

\* The change lists Plan can return, over the orders in which its maps are ranged
PlanResults ==
    { PlanChanges(createOrd, fieldOrd, dropOrd, colTblOrd,
                  [t \in TablesInBoth |->
                      SelectSeq(colOrds[t], LAMBDA c : c \in DOMAIN live[t])]) :
        createOrd \in Perms(TablesToCreate), fieldOrd \in Perms(TablesInBoth),
        dropOrd \in Perms(TablesToDrop), colTblOrd \in Perms(TablesInBoth),
        colOrds \in [TablesInBoth -> Perms({ColumnId, ColumnName})] }

\* Mutant of LiveAfterPlan: Plan runs the first change it found.
LiveAfterPlanApplies(s, p) == IF p = <<>> THEN s ELSE ApplyChange(s, p[1])

\* The live schema after Plan returned p: Plan only reads the schema
LiveAfterPlan(s, p) == s

\* Plan fails: getDBTables returns an error
MigPlanError ==
    /\ \/ mpc \in {"plan", "planned"}
       \/ mpc = "done" /\ mret = "ok"
    /\ mret' = "error"
    /\ mpc' = "done"
    /\ UNCHANGED <<live, models, aggressive, autoBackup, plan, mi, migLog, plan2, now>>

\* AutoSync: Plan, then Execute up to its first statement
MigPlan ==
    /\ mpc = "plan"
    /\ plan' \in PlanResults
    /\ live' = LiveAfterPlan(live, plan')
    /\ mi' = 1
    /\ IF Schedule(plan', autoBackup) = <<>>
       THEN mpc' = "done" /\ mret' = "ok"
       ELSE mpc' = "execute" /\ mret' = mret
    /\ UNCHANGED <<models, aggressive, autoBackup, migLog, plan2, now>>

\* Plan called on its own
MigPlanOnly ==
    /\ mpc = "plan"
    /\ plan' \in PlanResults
    /\ live' = LiveAfterPlan(live, plan')
    /\ mpc' = "planned"
    /\ UNCHANGED <<models, aggressive, autoBackup, mi, migLog, mret, plan2, now>>

\* Plan called again, after Plan or after an AutoSync that returned nil
MigPlanSecond ==
    /\ \/ mpc = "planned"
       \/ mpc = "done" /\ mret = "ok"
    /\ plan2' \in PlanResults
    /\ live' = LiveAfterPlan(live, plan2')
    /\ mpc' = "replanned"
    /\ UNCHANGED <<models, aggressive, autoBackup, plan, mi, migLog, mret, now>>

\* time passes between two calls
ClockTick ==
    /\ \/ mpc = "planned"
       \/ mpc = "done" /\ mret = "ok"
    /\ now < MaxNow
    /\ now' = now + 1
    /\ UNCHANGED <<live, models, aggressive, autoBackup, plan, mpc, mi, migLog, mret,
                   plan2>>

MigLogEntry(stmt, ok) == [kind |-> stmt.kind, change |-> stmt.change, ok |-> ok]

CurrentStmt == Schedule(plan, autoBackup)[mi]

MigAdvance ==
    /\ mi' = mi + 1
    /\ IF mi = Len(Schedule(plan, autoBackup))
       THEN mpc' = "done" /\ mret' = "ok"
       ELSE mpc' = mpc /\ mret' = mret

\* Execute: executeChange succeeds
MigStepChange ==
    /\ mpc = "execute"
    /\ CurrentStmt.kind = "change"
    /\ live' = ApplyChange(live, CurrentStmt.change)
    /\ migLog' = Append(migLog, MigLogEntry(CurrentStmt, TRUE))
    /\ MigAdvance
    /\ UNCHANGED <<models, aggressive, autoBackup, plan, plan2, now>>

\* Execute: createBackup succeeds
MigStepBackup ==
    /\ mpc = "execute"
    /\ CurrentStmt.kind = "backup"
    /\ BackupRunnable(live, CurrentStmt.change)
    /\ live' = ApplyBackup(live, CurrentStmt.change)
    /\ migLog' = Append(migLog, MigLogEntry(CurrentStmt, TRUE))
    /\ MigAdvance
    /\ UNCHANGED <<models, aggressive, autoBackup, plan, plan2, now>>

\* Mutant of ReturnsOnError: the loops go on after a failed statement.
ReturnsOnErrorNever == FALSE

\* `if err := ...; err != nil { return fmt.Errorf(...) }` in each loop of Execute
ReturnsOnError == TRUE

\* Execute: ExecContext fails, the error is wrapped and returned
MigStepFail ==
    /\ mpc = "execute"
    /\ migLog' = Append(migLog, MigLogEntry(CurrentStmt, FALSE))
    /\ IF ReturnsOnError
       THEN mret' = "error" /\ mpc' = "done" /\ mi' = mi
       ELSE MigAdvance
    /\ UNCHANGED <<live, models, aggressive, autoBackup, plan, plan2, now>>

-----------------------------------------------------------------------------
(* RelationLoader.loadHasMany, and ExecuteQuery for a find with `with` *)

\* The relation: RelationSchema{Name, ReferenceKey, ForeignKey}
RelName == "orders"
ReferenceKey == "id"
ForeignKey == "user_id"

KeyValues == 1..MaxKey

\* Source records: with the reference key, or selected without it
SourceRecords ==
    {("id" :> v) @@ ("name" :> "n") : v \in KeyValues} \cup {("name" :> "n")}

\* Rows of the related table
RelatedRows ==
    {("id" :> 21) @@ ("user_id" :> 1), ("id" :> 22) @@ ("user_id" :> 1),
     ("id" :> 23) @@ ("user_id" :> 2), ("id" :> 24) @@ ("user_id" :> 9)}

HasKey(row, key) == key \in DOMAIN row

\* `ids`: the reference-key values of the records that have one
idsOf(d) ==
    LET withKey == SelectSeq(d, LAMBDA row : HasKey(row, ReferenceKey))
    IN [k \in 1..Len(withKey) |-> withKey[k][ReferenceKey]]

InIds(v, ids) == \E k \in 1..Len(ids) : ids[k] = v

\* `idToIdx`: a later record with the same value overwrites the entry
idToIdx(d) ==
    [v \in {d[k][ReferenceKey] : k \in {j \in 1..Len(d) : HasKey(d[j], ReferenceKey)}} |->
        CHOOSE k \in 1..Len(d) :
            /\ HasKey(d[k], ReferenceKey)
            /\ d[k][ReferenceKey] = v
            /\ \A j \in (k + 1)..Len(d) :
                  ~(HasKey(d[j], ReferenceKey) /\ d[j][ReferenceKey] = v)]

\* `data[i][rel.Name] = []map[string]any{}` for the records with a reference key
InitCollections(d) ==
    [k \in 1..Len(d) |->
        IF HasKey(d[k], ReferenceKey) THEN (RelName :> <<>>) @@ d[k] ELSE d[k]]

\* one round of the loop that maps the related rows back to their parents
AttachRow(d, idx, relRow) ==
    IF HasKey(relRow, ForeignKey) /\ relRow[ForeignKey] \in DOMAIN idx
    THEN LET p == idx[relRow[ForeignKey]]
         IN [d EXCEPT ![p] = (RelName :> Append(d[p][RelName], relRow)) @@ @]
    ELSE d

RECURSIVE AttachAll(_, _, _)
AttachAll(d, idx, relRows) ==
    IF relRows = <<>> THEN d
    ELSE AttachAll(AttachRow(d, idx, Head(relRows)), idx, Tail(relRows))

RelIdle ==
    /\ relData = <<>>
    /\ related = {}
    /\ entry = "none"
    /\ rpc = "idle"
    /\ relResult = <<>>
    /\ rret = "none"

RelInit ==
    /\ relData \in UNION {[1..n -> SourceRecords] : n \in 0..MaxRecs}
    /\ related \in SUBSET RelatedRows
    /\ entry \in {"LoadRelations", "ExecuteQuery"}
    /\ rpc = "start"
    /\ relResult = <<>>
    /\ rret = "none"

\* LoadRelations: `len(data) == 0` returns nil
RelNoData ==
    /\ entry = "LoadRelations"
    /\ rpc = "start"
    /\ Len(relData) = 0
    /\ rret' = "nil"
    /\ rpc' = "done"
    /\ UNCHANGED <<relData, related, entry, relResult>>

\* loadHasMany: `len(ids) == 0` returns nil
RelNoIds ==
    /\ entry = "LoadRelations"
    /\ rpc = "start"
    /\ Len(relData) > 0
    /\ Len(idsOf(relData)) = 0
    /\ rret' = "nil"
    /\ rpc' = "done"
    /\ UNCHANGED <<relData, related, entry, relResult>>

\* loadHasMany: the find on the related table fails
RelQueryError ==
    /\ entry = "LoadRelations"
    /\ rpc = "start"
    /\ Len(idsOf(relData)) > 0
    /\ rret' = "error"
    /\ rpc' = "done"
    /\ UNCHANGED <<relData, related, entry, relResult>>

\* loadHasMany: the find on the related table answers, in the database's order
RelQuery ==
    /\ entry = "LoadRelations"
    /\ rpc = "start"
    /\ Len(idsOf(relData)) > 0
    /\ relResult' \in Perms({r \in related : InIds(r[ForeignKey], idsOf(relData))})
    /\ rpc' = "attach"
    /\ UNCHANGED <<relData, related, entry, rret>>

\* loadHasMany: initialise the collections, map the rows back, return nil
RelAttach ==
    /\ rpc = "attach"
    /\ relData' = AttachAll(InitCollections(relData), idToIdx(relData), relResult)
    /\ rret' = "nil"
    /\ rpc' = "done"
    /\ UNCHANGED <<related, entry, relResult>>

\* ExecuteQuery with action find and `with`: DB.executeFind hands the query to
\* Executor.ExecuteFind and returns its Result
RelFind ==
    /\ entry = "ExecuteQuery"
    /\ rpc = "start"
    /\ \E ok \in BOOLEAN : rret' = IF ok THEN "SUCCESS" ELSE "error"
    /\ rpc' = "done"
    /\ UNCHANGED <<relData, related, entry, relResult>>

-----------------------------------------------------------------------------
(* SQLBuilder: the statement text and the parameters it binds *)

\* A value of type any: an integer, nil, an array of integers, or the map
\* {"$incr": n} / {"$decr": n} of an update payload.
IntV(n) == [t |-> "int", n |-> n, a |-> <<>>]
NilV == [t |-> "nil", n |-> 0, a |-> <<>>]
ArrV(a) == [t |-> "arr", n |-> 0, a |-> a]
IncrV(n) == [t |-> "$incr", n |-> n, a |-> <<>>]
DecrV(n) == [t |-> "$decr", n |-> n, a |-> <<>>]

\* The elements of a []any
ElementsOf(value) == [k \in 1..Len(value.a) |-> IntV(value.a[k])]

Dialects == {"postgres", "mysql", "sqlite"}

\* The SQL text is a sequence of lexical tokens. A placeholder is "$" with its
\* number or "?"; `of` records the value it was made for (not part of the text).
Txt(s) == [s |-> s, n |-> 0, of |-> NilV]

Placeholder(dialect, n) ==
    IF dialect = "postgres" THEN [s |-> "$", n |-> n] ELSE [s |-> "?", n |-> 0]

SupportsReturning(dialect) == dialect \in {"postgres", "sqlite"}

Condition(field, op, value) ==
    [Field |-> field, Op |-> op, Value |-> value, Or |-> FALSE, Ref |-> "",
     Subquery |-> <<>>, And |-> <<>>, OrGroup |-> <<>>]

HavingCondition(fn, field, op, value) ==
    [Fn |-> fn, Field |-> field, Op |-> op, Value |-> value]

\* The Query fields that bind parameters (Select, Join, GroupBy, OrderBy,
\* Limit and Offset are written into the text without a parameter).
\* Subquery is <<>> for nil and <<q>> for a pointer to q.
BuilderQuery(action, table, payload, batch, where, having) ==
    [Action |-> action, Table |-> table, Data |-> payload, DataBatch |-> batch,
     Where |-> where, Having |-> having]

NewSQLBuilder(dialect) == [dialect |-> dialect, params |-> <<>>, paramN |-> 0]

\* What a build function returns: the text, the builder after it, an error.
Built(sb, sql) == [sb |-> sb, sql |-> sql, err |-> FALSE]
BuildFailed(sb) == [sb |-> sb, sql |-> <<>>, err |-> TRUE]

addParam(sb, value) ==
    Built([sb EXCEPT !.paramN = @ + 1, !.params = Append(@, value)],
          << [s |-> Placeholder(sb.dialect, sb.paramN + 1).s,
              n |-> Placeholder(sb.dialect, sb.paramN + 1).n,
              of |-> value] >>)

\* `r := f(...)` followed by the statements that use r
Only(S) == CHOOSE x \in S : TRUE
Then(r, Rest(_)) == Only({Rest(x) : x \in {r}})

\* addParam for each value, the placeholders joined with ", "
RECURSIVE addParams(_, _)
addParams(sb, values) ==
    IF values = <<>> THEN Built(sb, <<>>)
    ELSE Then(addParam(sb, Head(values)), LAMBDA r :
         Then(addParams(r.sb, Tail(values)), LAMBDA rest :
            Built(rest.sb,
                  r.sql \o (IF Tail(values) = <<>> THEN <<>> ELSE <<Txt(",")>>)
                        \o rest.sql)))

opToSQL(op) ==
    CASE op = "in" -> "IN"
      [] op = "not_in" -> "NOT IN"
      [] op = "like" -> "LIKE"
      [] op = "not_like" -> "NOT LIKE"
      [] OTHER -> op

\* Mutant of TransferBack: only the counter goes back.
TransferBackCounterOnly(sb, sub) == [sb EXCEPT !.paramN = sub.paramN]

\* the sub-builder's parameters and counter go back to the builder
TransferBack(sb, sub) ==
    [sb EXCEPT !.params = sb.params \o sub.params, !.paramN = sub.paramN]

\* Mutant of IsArray: every value passes for an array.
IsArrayAlways(value) == TRUE

\* `values, ok := cond.Value.([]any)`
IsArray(value) == value.t = "arr"

\* buildCondition below the group, subquery and reference cases
buildOperator(sb, cond) ==
    LET field == Txt(cond.Field)
    IN CASE cond.Op = "null" -> Built(sb, <<field, Txt("IS NULL")>>)
         [] cond.Op = "not_null" -> Built(sb, <<field, Txt("IS NOT NULL")>>)
         [] cond.Op \in {"in", "not_in"} ->
               IF IsArray(cond.Value)
               THEN Then(addParams(sb, ElementsOf(cond.Value)), LAMBDA r :
                       Built(r.sb, <<field, Txt(opToSQL(cond.Op)), Txt("(")>>
                                   \o r.sql \o <<Txt(")")>>))
               ELSE BuildFailed(sb)
         [] cond.Op = "between" ->
               IF IsArray(cond.Value) /\ Len(cond.Value.a) = 2
               THEN Then(addParam(sb, ElementsOf(cond.Value)[1]), LAMBDA r1 :
                    Then(addParam(r1.sb, ElementsOf(cond.Value)[2]), LAMBDA r2 :
                       Built(r2.sb, <<field, Txt("BETWEEN")>> \o r1.sql
                                    \o <<Txt("AND")>> \o r2.sql)))
               ELSE BuildFailed(sb)
         [] cond.Op = "exists" -> BuildFailed(sb)
         [] OTHER ->
               Then(addParam(sb, cond.Value), LAMBDA r :
                  Built(r.sb, <<field, Txt(opToSQL(cond.Op))>> \o r.sql))

buildHavingPart(sb, h) ==
    Then(addParam(sb, h.Value), LAMBDA r :
       Built(r.sb, <<Txt(h.Fn), Txt("("), Txt(h.Field), Txt(")"), Txt(opToSQL(h.Op))>>
                   \o r.sql))

RECURSIVE buildHaving(_, _)
buildHaving(sb, having) ==
    IF having = <<>> THEN Built(sb, <<>>)
    ELSE Then(buildHavingPart(sb, Head(having)), LAMBDA r :
         Then(buildHaving(r.sb, Tail(having)), LAMBDA rest :
            Built(rest.sb,
                  r.sql \o (IF Tail(having) = <<>> THEN <<>> ELSE <<Txt("AND")>>)
                        \o rest.sql)))

\* Mutant of conditionPrefix: every later condition is joined with AND.
conditionPrefixAnd(cond, k) == IF k = 1 THEN <<>> ELSE <<Txt("AND")>>

\* `if i == 0 { condSQL } else if cond.Or { "OR " + condSQL } else { "AND " + condSQL }`
conditionPrefix(cond, k) ==
    IF k = 1 THEN <<>> ELSE IF cond.Or THEN <<Txt("OR")>> ELSE <<Txt("AND")>>

RECURSIVE buildCondition(_, _)
RECURSIVE buildConditionsFrom(_, _, _)
RECURSIVE buildOrGroup(_, _, _)
RECURSIVE buildSelect(_, _)

\* the loop of buildConditions from the k-th condition on
buildConditionsFrom(sb, conditions, k) ==
    IF k > Len(conditions) THEN Built(sb, <<>>)
    ELSE LET prefix == conditionPrefix(conditions[k], k)
         IN Then(buildCondition(sb, conditions[k]), LAMBDA r :
               IF r.err THEN BuildFailed(sb)
               ELSE Then(buildConditionsFrom(r.sb, conditions, k + 1), LAMBDA rest :
                       IF rest.err THEN BuildFailed(sb)
                       ELSE Built(rest.sb, prefix \o r.sql \o rest.sql)))

buildConditions(sb, conditions) == buildConditionsFrom(sb, conditions, 1)

\* the loop over cond.OrGroup from the k-th condition on
buildOrGroup(sb, group, k) ==
    IF k > Len(group) THEN Built(sb, <<>>)
    ELSE LET prefix == IF k = 1 THEN <<>> ELSE <<Txt("OR")>>
         IN Then(buildCondition(sb, group[k]), LAMBDA r :
               IF r.err THEN BuildFailed(sb)
               ELSE Then(buildOrGroup(r.sb, group, k + 1), LAMBDA rest :
                       IF rest.err THEN BuildFailed(sb)
                       ELSE Built(rest.sb, prefix \o r.sql \o rest.sql)))

buildCondition(sb, cond) ==
    IF Len(cond.And) > 0
    THEN Then(buildConditions(sb, cond.And), LAMBDA r :
            IF r.err THEN BuildFailed(sb)
            ELSE Built(r.sb, <<Txt("(")>> \o r.sql \o <<Txt(")")>>))
    ELSE IF Len(cond.OrGroup) > 0
    THEN Then(buildOrGroup(sb, cond.OrGroup, 1), LAMBDA r :
            IF r.err THEN BuildFailed(sb)
            ELSE Built(r.sb, <<Txt("(")>> \o r.sql \o <<Txt(")")>>))
    ELSE IF cond.Subquery # <<>>
    THEN LET subBuilder == [NewSQLBuilder(sb.dialect) EXCEPT !.paramN = sb.paramN]
         IN Then(buildSelect(subBuilder, cond.Subquery[1]), LAMBDA r :
               IF r.err THEN BuildFailed(sb)
               ELSE Built(TransferBack(sb, r.sb),
                          <<Txt(cond.Field), Txt(opToSQL(cond.Op)), Txt("(")>>
                          \o r.sql \o <<Txt(")")>>))
    ELSE IF cond.Ref # ""
    THEN Built(sb, <<Txt(cond.Field), Txt(opToSQL(cond.Op)), Txt(cond.Ref)>>)
    ELSE buildOperator(sb, cond)

buildWhere(sb, query) == buildConditions(sb, query.Where)

\* `if len(b.query.Where) > 0 { ... " WHERE " + whereSQL }`
WhereClause(sb, query) ==
    IF Len(query.Where) > 0
    THEN Then(buildWhere(sb, query), LAMBDA r :
            IF r.err THEN r ELSE Built(r.sb, <<Txt("WHERE")>> \o r.sql))
    ELSE Built(sb, <<>>)

\* `if len(b.query.Having) > 0 { ... " HAVING " + havingSQL }`
HavingClause(sb, query) ==
    IF Len(query.Having) > 0
    THEN Then(buildHaving(sb, query.Having), LAMBDA r :
            Built(r.sb, <<Txt("HAVING")>> \o r.sql))
    ELSE Built(sb, <<>>)

buildSelect(sb, query) ==
    Then(WhereClause(sb, query), LAMBDA w :
       IF w.err THEN BuildFailed(sb)
       ELSE Then(HavingClause(w.sb, query), LAMBDA h :
               Built(h.sb, <<Txt("SELECT"), Txt("*"), Txt("FROM"), Txt(query.Table)>>
                           \o w.sql \o h.sql)))

buildAggregate(sb, query) == buildSelect(sb, query)

\* the columns of a record in the order the map iteration gave, joined with ", "
RECURSIVE ColumnList(_)
ColumnList(order) ==
    IF order = <<>> THEN <<>>
    ELSE <<Txt(Head(order))>> \o (IF Tail(order) = <<>> THEN <<>> ELSE <<Txt(",")>>)
         \o ColumnList(Tail(order))

Returning(dialect) == IF SupportsReturning(dialect) THEN <<Txt("RETURNING id")>> ELSE <<>>

\* `order` is the order in which `range b.query.Data` yields the columns
buildInsert(sb, query, order) ==
    IF DOMAIN query.Data = {} THEN BuildFailed(sb)
    ELSE Then(addParams(sb, [k \in 1..Len(order) |-> query.Data[order[k]]]), LAMBDA r :
            Built(r.sb, <<Txt("INSERT INTO"), Txt(query.Table), Txt("(")>>
                        \o ColumnList(order) \o <<Txt(")"), Txt("VALUES"), Txt("(")>>
                        \o r.sql \o <<Txt(")")>> \o Returning(sb.dialect)))

\* record[col] of a map: nil for a missing key
RecordValue(record, col) == IF col \in DOMAIN record THEN record[col] ELSE NilV

\* the value rows of buildInsertBatch
RECURSIVE valueRows(_, _, _)
valueRows(sb, batch, columnNames) ==
    IF batch = <<>> THEN Built(sb, <<>>)
    ELSE Then(addParams(sb, [k \in 1..Len(columnNames) |->
                               RecordValue(Head(batch), columnNames[k])]), LAMBDA r :
         Then(valueRows(r.sb, Tail(batch), columnNames), LAMBDA rest :
            Built(rest.sb,
                  <<Txt("(")>> \o r.sql \o <<Txt(")")>>
                  \o (IF Tail(batch) = <<>> THEN <<>> ELSE <<Txt(",")>>) \o rest.sql)))

\* `order` is the order in which `range firstRecord` yields the columns
buildInsertBatch(sb, query, order) ==
    IF Len(query.DataBatch) = 0 THEN BuildFailed(sb)
    ELSE Then(valueRows(sb, query.DataBatch, order), LAMBDA r :
            Built(r.sb, <<Txt("INSERT INTO"), Txt(query.Table), Txt("(")>>
                        \o ColumnList(order) \o <<Txt(")"), Txt("VALUES")>>
                        \o r.sql \o Returning(sb.dialect)))

\* Mutant of setPart: every entry is a plain assignment of its value.
setPartPlain(sb, col, val) ==
    Then(addParam(sb, val), LAMBDA r :
       Built(r.sb, <<Txt(col), Txt("=")>> \o r.sql))

\* one entry of the SET clause
setPart(sb, col, val) ==
    CASE val.t = "$incr" ->
            Then(addParam(sb, IntV(val.n)), LAMBDA r :
               Built(r.sb, <<Txt(col), Txt("="), Txt(col), Txt("+")>> \o r.sql))
      [] val.t = "$decr" ->
            Then(addParam(sb, IntV(val.n)), LAMBDA r :
               Built(r.sb, <<Txt(col), Txt("="), Txt(col), Txt("-")>> \o r.sql))
      [] OTHER ->
            Then(addParam(sb, val), LAMBDA r :
               Built(r.sb, <<Txt(col), Txt("=")>> \o r.sql))

RECURSIVE setParts(_, _, _)
setParts(sb, payload, order) ==
    IF order = <<>> THEN Built(sb, <<>>)
    ELSE Then(setPart(sb, Head(order), payload[Head(order)]), LAMBDA r :
         Then(setParts(r.sb, payload, Tail(order)), LAMBDA rest :
            Built(rest.sb,
                  r.sql \o (IF Tail(order) = <<>> THEN <<>> ELSE <<Txt(",")>>)
                        \o rest.sql)))

buildUpdate(sb, query, order) ==
    IF DOMAIN query.Data = {} THEN BuildFailed(sb)
    ELSE Then(setParts(sb, query.Data, order), LAMBDA s :
         Then(WhereClause(s.sb, query), LAMBDA w :
            IF w.err THEN BuildFailed(sb)
            ELSE Built(w.sb, <<Txt("UPDATE"), Txt(query.Table), Txt("SET")>>
                             \o s.sql \o w.sql)))

buildDelete(sb, query) ==
    Then(WhereClause(sb, query), LAMBDA w :
       IF w.err THEN BuildFailed(sb)
       ELSE Built(w.sb, <<Txt("DELETE FROM"), Txt(query.Table)>> \o w.sql))

buildCount(sb, query) ==
    Then(WhereClause(sb, query), LAMBDA w :
       IF w.err THEN BuildFailed(sb)
       ELSE Built(w.sb, <<Txt("SELECT COUNT(*) FROM"), Txt(query.Table)>> \o w.sql))

BuildResult(sql, params) == [SQL |-> sql, Params |-> params, err |-> FALSE]
NoBuildResult == [SQL |-> <<>>, Params |-> <<>>, err |-> TRUE]

Build(dialect, query, order) ==
    LET sb == NewSQLBuilder(dialect)
    IN Then(CASE query.Action = "find" -> buildSelect(sb, query)
              [] query.Action = "create" -> buildInsert(sb, query, order)
              [] query.Action = "create_batch" -> buildInsertBatch(sb, query, order)
              [] query.Action = "update" -> buildUpdate(sb, query, order)
              [] query.Action = "delete" -> buildDelete(sb, query)
              [] query.Action = "count" -> buildCount(sb, query)
              [] query.Action = "aggregate" -> buildAggregate(sb, query)
              [] OTHER -> BuildFailed(sb),
            LAMBDA r : IF r.err THEN NoBuildResult ELSE BuildResult(r.sql, r.sb.params))

\* The orders in which the map the action ranges over may be iterated.
MapOrders(query) ==
    CASE query.Action \in {"create", "update"} -> Perms(DOMAIN query.Data)
      [] query.Action = "create_batch" /\ Len(query.DataBatch) > 0 ->
            Perms(DOMAIN query.DataBatch[1])
      [] OTHER -> {<<>>}

(* The queries compiled *)

WithOr(cond) == [cond EXCEPT !.Or = TRUE]
WithRef(cond, ref) == [cond EXCEPT !.Ref = ref]
AndOf(conds) == [Condition("", "", NilV) EXCEPT !.And = conds]
OrGroupOf(conds) == [Condition("", "", NilV) EXCEPT !.OrGroup = conds]
SubqueryOf(field, op, query) == [Condition(field, op, NilV) EXCEPT !.Subquery = <<query>>]

CondEq == Condition("a", "=", IntV(1))
CondInArr == Condition("b", "in", ArrV(<<2, 3>>))
CondBetween == Condition("c", "between", ArrV(<<4, 5>>))
CondNull == Condition("d", "null", NilV)
CondRef == WithRef(Condition("e", "=", NilV), "f")
CondLikeOr == WithOr(Condition("g", "like", IntV(6)))
CondInScalar == Condition("b", "in", IntV(7))
CondBetweenOne == Condition("c", "between", ArrV(<<8>>))

HavingSet == {<<>>, <<HavingCondition("COUNT", "*", ">", IntV(9))>>,
              <<HavingCondition("SUM", "p", ">", IntV(10)),
                HavingCondition("MAX", "r", "<", IntV(11))>>}

SubSelect ==
    BuilderQuery("find", "t2", <<>>, <<>>, <<Condition("h", "=", IntV(12))>>,
                 <<HavingCondition("COUNT", "*", ">", IntV(13))>>)

SubSelectDeep ==
    BuilderQuery("find", "t3", <<>>, <<>>,
                 <<SubqueryOf("k", "in", SubSelect), Condition("m", "<", IntV(14))>>, <<>>)

CondSet ==
    { CondEq, CondInArr, CondBetween, CondNull, CondRef, CondLikeOr, CondInScalar,
      CondBetweenOne,
      AndOf(<<CondLikeOr, CondInArr>>),
      OrGroupOf(<<CondBetween, CondEq>>),
      AndOf(<<OrGroupOf(<<CondEq, CondInArr>>), SubqueryOf("u", "in", SubSelect)>>),
      SubqueryOf("u", "in", SubSelect),
      SubqueryOf("w", "not_in", SubSelectDeep) }

WhereSet == UNION {[1..n -> CondSet] : n \in 0..MaxWhere}

PayloadSet ==
    { <<>>, ("x" :> IntV(15)), ("x" :> IntV(15)) @@ ("y" :> IncrV(16)),
      ("x" :> DecrV(17)) @@ ("y" :> IntV(18)) }

BatchSet ==
    { <<>>, << ("x" :> IntV(19)) @@ ("y" :> IntV(20)), ("x" :> IntV(21)) @@ ("y" :> IntV(22)) >>,
      << ("x" :> IntV(19)) @@ ("y" :> IntV(20)), ("x" :> IntV(21)) >> }

BuilderQuerySet ==
    { BuilderQuery("find", "t", <<>>, <<>>, w, h) : w \in WhereSet, h \in HavingSet }
    \cup { BuilderQuery("aggregate", "t", <<>>, <<>>, w,
                         <<HavingCondition("COUNT", "*", ">", IntV(9))>>) : w \in WhereSet }
    \cup { BuilderQuery("update", "t", d, <<>>, w, <<>>) : d \in PayloadSet, w \in WhereSet }
    \cup { BuilderQuery(a, "t", <<>>, <<>>, w, <<>>) : a \in {"delete", "count"}, w \in WhereSet }
    \cup { BuilderQuery("create", "t", d, <<>>, <<>>, <<>>) : d \in PayloadSet }
    \cup { BuilderQuery("create_batch", "t", <<>>, r, <<>>, <<>>) : r \in BatchSet }
    \cup { BuilderQuery("describe", "t", <<>>, <<>>, <<>>, <<>>) }

BuildIdle ==
    /\ bquery = BuilderQuery("", "", <<>>, <<>>, <<>>, <<>>)
    /\ bdialect = "postgres"
    /\ bpc = "idle"
    /\ bresult = NoBuildResult

BuildInit ==
    /\ bquery \in BuilderQuerySet
    /\ bdialect \in Dialects
    /\ bpc = "start"
    /\ bresult = NoBuildResult

\* NewSQLBuilder(dialect, query).Build() returns a BuildResult
BuildOk ==
    /\ bpc = "start"
    /\ \E order \in MapOrders(bquery) :
          \E r \in {Build(bdialect, bquery, order)} :
             /\ ~r.err
             /\ bresult' = r
    /\ bpc' = "done"
    /\ UNCHANGED <<bquery, bdialect>>

\* NewSQLBuilder(dialect, query).Build() returns an error
BuildFails ==
    /\ bpc = "start"
    /\ \E order \in MapOrders(bquery) : Build(bdialect, bquery, order).err
    /\ bresult' = NoBuildResult
    /\ bpc' = "failed"
    /\ UNCHANGED <<bquery, bdialect>>

-----------------------------------------------------------------------------
(* Specifications *)

InitTx == TxInit /\ ExecConfigured /\ MigIdle /\ RelIdle /\ BuildIdle

NextTx ==
    \/ TxNoOperations /\ UNCHANGED <<execVars, migVars, relVars, buildVars>>
    \/ TxBegin /\ UNCHANGED <<execVars, migVars, relVars, buildVars>>
    \/ TxStepCheck /\ UNCHANGED <<execVars, migVars, relVars, buildVars>>
    \/ TxStepBuildError /\ UNCHANGED <<execVars, migVars, relVars, buildVars>>
    \/ TxStepUnsupported /\ UNCHANGED <<execVars, migVars, relVars, buildVars>>
    \/ TxStepExecError /\ UNCHANGED <<execVars, migVars, relVars, buildVars>>
    \/ TxStepCreate /\ UNCHANGED <<execVars, migVars, relVars, buildVars>>
    \/ TxStepCreateNoRows /\ UNCHANGED <<execVars, migVars, relVars, buildVars>>
    \/ TxStepWrite /\ UNCHANGED <<execVars, migVars, relVars, buildVars>>
    \/ TxStepFind /\ UNCHANGED <<execVars, migVars, relVars, buildVars>>
    \/ TxCommit /\ UNCHANGED <<execVars, migVars, relVars, buildVars>>
    \/ CtxCancel /\ UNCHANGED <<execVars, migVars, relVars, buildVars>>
    \/ AwaitDone /\ UNCHANGED <<execVars, migVars, relVars, buildVars>>

SpecTx == InitTx /\ [][NextTx]_vars

InitExec == ExecInit /\ TxIdle /\ MigIdle /\ RelIdle /\ BuildIdle

NextExec ==
    \/ ExecValidateError /\ UNCHANGED <<txVars, migVars, relVars, buildVars>>
    \/ ExecDispatch /\ UNCHANGED <<txVars, migVars, relVars, buildVars>>
    \/ ExecGateCount /\ UNCHANGED <<txVars, migVars, relVars, buildVars>>
    \/ ExecWriteBuildError /\ UNCHANGED <<txVars, migVars, relVars, buildVars>>
    \/ ExecWriteError /\ UNCHANGED <<txVars, migVars, relVars, buildVars>>
    \/ ExecWrite /\ UNCHANGED <<txVars, migVars, relVars, buildVars>>
    \/ ExecOtherBuildError /\ UNCHANGED <<txVars, migVars, relVars, buildVars>>
    \/ ExecOther /\ UNCHANGED <<txVars, migVars, relVars, buildVars>>
    \/ ExecExplain /\ UNCHANGED <<txVars, migVars, relVars, buildVars>>
    \/ ExecValidate /\ UNCHANGED <<txVars, migVars, relVars, buildVars>>
    \/ ExecDescribe /\ UNCHANGED <<txVars, migVars, relVars, buildVars>>
    \/ OtherInsert /\ UNCHANGED <<txVars, migVars, relVars, buildVars>>

SpecExec == InitExec /\ [][NextExec]_vars

InitMig == MigInit /\ TxIdle /\ ExecIdle /\ RelIdle /\ BuildIdle

NextMig ==
    \/ MigPlanError /\ UNCHANGED <<txVars, execVars, relVars, buildVars>>
    \/ MigPlan /\ UNCHANGED <<txVars, execVars, relVars, buildVars>>
    \/ MigPlanOnly /\ UNCHANGED <<txVars, execVars, relVars, buildVars>>
    \/ MigPlanSecond /\ UNCHANGED <<txVars, execVars, relVars, buildVars>>
    \/ ClockTick /\ UNCHANGED <<txVars, execVars, relVars, buildVars>>
    \/ MigStepChange /\ UNCHANGED <<txVars, execVars, relVars, buildVars>>
    \/ MigStepBackup /\ UNCHANGED <<txVars, execVars, relVars, buildVars>>
    \/ MigStepFail /\ UNCHANGED <<txVars, execVars, relVars, buildVars>>

SpecMig == InitMig /\ [][NextMig]_vars

InitRel == RelInit /\ TxIdle /\ ExecIdle /\ MigIdle /\ BuildIdle

NextRel ==
    \/ RelNoData /\ UNCHANGED <<txVars, execVars, migVars, buildVars>>
    \/ RelNoIds /\ UNCHANGED <<txVars, execVars, migVars, buildVars>>
    \/ RelQueryError /\ UNCHANGED <<txVars, execVars, migVars, buildVars>>
    \/ RelQuery /\ UNCHANGED <<txVars, execVars, migVars, buildVars>>
    \/ RelAttach /\ UNCHANGED <<txVars, execVars, migVars, buildVars>>
    \/ RelFind /\ UNCHANGED <<txVars, execVars, migVars, buildVars>>

SpecRel == InitRel /\ [][NextRel]_vars

InitBuild == BuildInit /\ TxIdle /\ ExecIdle /\ MigIdle /\ RelIdle

NextBuild ==
    \/ BuildOk /\ UNCHANGED <<txVars, execVars, migVars, relVars>>
    \/ BuildFails /\ UNCHANGED <<txVars, execVars, migVars, relVars>>

SpecBuild == InitBuild /\ [][NextBuild]_vars

-----------------------------------------------------------------------------
(* Claims about the transaction coordinator *)

Returned == ret # "none"

\* The steps that wrote inside the transaction.
WritesMade == {stepLog[k].idx : k \in {j \in 1..Len(stepLog) : stepLog[j].wrote}}

\* C1: when the transaction action returns, either the writes of all steps
\* are committed together (every step has run) or none of them is visible;
\* never a proper subset.
C1_AllOrNothing ==
    Returned =>
        \/ committed = {}
        \/ /\ i > Len(ops)
           /\ ret = "SUCCESS"
           /\ committed = WritesMade

\* C1 witness: step 2 failed after step 1 wrote, and nothing is visible.
C1_Witness ==
    /\ ret = "TX_OPERATION_ERROR"
    /\ Len(stepLog) = 2
    /\ stepLog[1].wrote
    /\ ~stepLog[2].ok
    /\ committed = {}

\* C2: whenever a step fails or the commit returns an error, the atomic unit
\* has been rolled back when the transaction's error is returned.
C2_RollbackOnAnyError ==
    ret \in {"TX_OPERATION_ERROR", "TX_COMMIT_ERROR"} => txState = "rolledback"

\* The alias a string value names when it has the form $alias.field; <<>> otherwise.
RefAliasOf(v) ==
    IF v.t = "str" /\ HasPrefix(v.s, <<"$">>) /\ Len(SplitN2(Tail(v.s), ".")) = 2
    THEN SplitN2(Tail(v.s), ".")[1]
    ELSE <<>>

\* Whether the value v of the supplied step stands unchanged in the compiled step.
KeptLiteral(e, v) ==
    /\ \A d \in ops[e.idx].Data : d.val = v => [col |-> d.col, val |-> v] \in e.op.Data
    /\ \A k \in 1..Len(ops[e.idx].Where) :
          ops[e.idx].Where[k].Value = v => e.op.Where[k].Value = v

\* C5: steps run strictly in the order supplied; resolving step k consults
\* only results of steps before k that have completed; a reference to an
\* alias that only step k or a later step defines is never resolved.
C5_OrderAndBackwardOnly ==
    /\ \A k \in 1..(Len(stepLog) - 1) : stepLog[k].idx < stepLog[k + 1].idx
    /\ \A k \in 1..Len(stepLog) :
          /\ \A src \in stepLog[k].srcs :
                /\ src < stepLog[k].idx
                /\ \E j \in 1..(k - 1) : stepLog[j].idx = src /\ stepLog[j].ok
          /\ \A v \in ValuesOf(ops[stepLog[k].idx]) :
                (/\ RefAliasOf(v) # <<>>
                 /\ \A j \in 1..(stepLog[k].idx - 1) : ops[j].As # RefAliasOf(v))
                => KeptLiteral(stepLog[k], v)

\* C5 witness: step 1 named its own alias and kept the literal; step 2
\* resolved the same reference from step 1's result.
C5_Witness ==
    /\ Len(stepLog) = 2
    /\ ops[1].As = AliasA
    /\ RefAId \in ValuesOf(ops[1])
    /\ stepLog[1].op = ops[1]
    /\ stepLog[2].idx = 2
    /\ stepLog[2].srcs = {1}
    /\ stepLog[2].op # ops[2]

\* Whether step 2 was compiled with every `$alias.id` of step 1's alias
\* replaced by the identifier the database generated for step 1's record.
Step2GetsStep1Id ==
    LET ref == StrV(RefStr(ops[1].As, FieldId))
        id == NumV(stepLog[1].genId)
        e == stepLog[2]
    IN /\ \A d \in ops[2].Data :
             d.val = ref => /\ [col |-> d.col, val |-> id] \in e.op.Data
                            /\ e.built => \E k \in 1..Len(e.params) : e.params[k] = id
       /\ \A k \in 1..Len(ops[2].Where) :
             ops[2].Where[k].Value = ref
             => /\ e.op.Where[k].Value = id
                /\ e.built => \E m \in 1..Len(e.params) : e.params[m] = id

\* Step 1 is an aliased create that created a record, and step 2 was compiled.
C6_Case ==
    /\ Len(stepLog) >= 2
    /\ stepLog[1].idx = 1
    /\ stepLog[2].idx = 2
    /\ ops[1].Action = "create"
    /\ ops[1].As # <<>>
    /\ stepLog[1].genId # 0

C7_UnsupportedActionFails ==
    \A k \in 1..Len(ops) :
        ops[k].Action \notin TxActions => (i <= k /\ txState # "committed")

\* C8: if the context ends while the transaction is open, the transaction
\* has been rolled back when the call returns.
C8_CancelRollsBack ==
    (Returned /\ cancelMidTx) => txState = "rolledback"

\* Step 1 is a create that the JSON names `a` with the key `ref` and that
\* created a record, and step 2 was run.
C18_Case ==
    /\ jql.key = "ref"
    /\ Len(stepLog) >= 2
    /\ stepLog[1].idx = 1
    /\ stepLog[2].idx = 2
    /\ ops[1].Action = "create"
    /\ jql.names[1] = AliasA
    /\ stepLog[1].genId # 0

\* C18: an operation named with the key `ref` can be referenced by a later
\* operation: the value $a.id in a later operation is replaced by the id of the
\* record that the operation named a created.
C18_RefNamesOperation ==
    C18_Case =>
        LET id == NumV(stepLog[1].genId)
            e == stepLog[2]
        IN /\ \A d \in ops[2].Data :
                 d.val = RefAId => [col |-> d.col, val |-> id] \in e.op.Data
           /\ \A k \in 1..Len(ops[2].Where) :
                 ops[2].Where[k].Value = RefAId => e.op.Where[k].Value = id

\* the predicate values of a list of conditions, those inside nested groups included
RECURSIVE DeepValues(_)
DeepValues(conds) ==
    UNION {IF Len(conds[k].And) > 0 THEN DeepValues(conds[k].And) ELSE {conds[k].Value} :
           k \in 1..Len(conds)}

\* The value has the form $alias.field, the alias is that of a step completed
\* before the k-th logged step, and the field is one every Result has.
RefToCompleted(v, k) ==
    /\ RefAliasOf(v) # <<>>
    /\ \E j \in 1..(k - 1) : stepLog[j].ok /\ ops[stepLog[j].idx].As = RefAliasOf(v)
    /\ SplitN2(Tail(v.s), ".")[2] \in {FieldId, FieldAffected, FieldCount}

\* C25: a compiled step binds no value of its payload or of its predicates, at
\* any nesting depth of its condition groups, that is still a reference
\* $alias.field to a completed step: each has been replaced.
C25_NestedRefsResolved ==
    \A k \in 1..Len(stepLog) :
        stepLog[k].built =>
            \A v \in {d.val : d \in ops[stepLog[k].idx].Data}
                      \cup DeepValues(ops[stepLog[k].idx].Where) :
                RefToCompleted(v, k)
                    => \A m \in 1..Len(stepLog[k].params) : stepLog[k].params[m] # v

C29_TransactionStepIsGated ==
    (confirmDestructive /\ rowsAtCall > confirmThreshold) =>
        \A k \in 1..Len(stepLog) :
            (stepLog[k].op.Action \in {"update", "delete"} /\ Len(stepLog[k].op.Where) = 0)
                => ~(stepLog[k].ok /\ stepLog[k].wrote /\ stepLog[k].res.Affected > 0)

-----------------------------------------------------------------------------
(* Claims about DB.ExecuteQuery and the executor *)

\* An UPDATE or DELETE that passes validation and compiles, has no predicates,
\* runs with ConfirmDestructive on, and targets a table that held more rows than
\* ConfirmThreshold when ExecuteQuery was called.
GateCase ==
    /\ confirmDestructive
    /\ eq.Action \in DestructiveActions
    /\ ~ValidateError(eq)
    /\ ~BuildError(eq)
    /\ Len(eq.Where) = 0
    /\ rowsAtCall > confirmThreshold

DestructiveSent == \E k \in 1..Len(dbLog) : dbLog[k] \in {"UPDATE", "DELETE"}

\* C3: with ConfirmDestructive on, an UPDATE or DELETE without predicates whose
\* table holds more rows than ConfirmThreshold returns a pending-confirmation
\* result and performs no mutation.
C3_GateReturnsPending ==
    GateCase => /\ mutated = 0
                /\ ~DestructiveSent
                /\ (eres # "none" => eres = "CONFIRM_REQUIRED")

\* C4: a query that fails validation or fails SQL compilation returns its error
\* without any statement having been sent to the database.
C4_ErrorsNeverReachDb ==
    eres \in {"VALIDATION_ERROR", "BUILD_ERROR"} => dbLog = <<>>

\* A destructive statement without predicates that runs with ConfirmDestructive on.
GatedWrite ==
    /\ confirmDestructive
    /\ eq.Action \in DestructiveActions
    /\ Len(eq.Where) = 0

GateCountFailed == \E k \in 1..Len(dbLog) : dbLog[k] = CountFailed

\* C27: when the gate's COUNT query returns an error, the UPDATE or DELETE is
\* not executed.
C27_CountErrorStopsWrite ==
    (GatedWrite /\ GateCountFailed) => ~DestructiveSent

\* C28: with ConfirmDestructive on and the gate's COUNT answered, an UPDATE or
\* DELETE without predicates never mutates more rows than ConfirmThreshold,
\* whatever other callers insert between the COUNT and the statement.
C28_NeverAboveThreshold ==
    (GatedWrite /\ ~GateCountFailed) => mutated <= confirmThreshold

-----------------------------------------------------------------------------
(* Claims about the migrator *)

SentBackup(k) == migLog[k].kind = "backup"
SentDestructive(k) == migLog[k].kind = "change" /\ migLog[k].change.Destructive
AppliedDestructive(k) == SentDestructive(k) /\ migLog[k].ok

\* statement (kind, c) was sent and succeeded before position k of the log
DoneBefore(kind, c, k) ==
    \E j \in 1..(k - 1) : migLog[j] = [kind |-> kind, change |-> c, ok |-> TRUE]

\* C9: during Execute every non-destructive change of the plan is applied before
\* any backup is created and before any destructive change is applied; with
\* AutoBackup on, the backup of every destructive change that carries a
\* backup-table name is created before any destructive change is applied.
C9_ExecuteOrder ==
    \A k \in 1..Len(migLog) :
        /\ (SentBackup(k) \/ SentDestructive(k)) =>
              \A m \in 1..Len(plan) :
                  ~plan[m].Destructive => DoneBefore("change", plan[m], k)
        /\ (autoBackup /\ SentDestructive(k)) =>
              \A m \in 1..Len(plan) :
                  (plan[m].Destructive /\ plan[m].BackupTable # NoName)
                      => DoneBefore("backup", plan[m], k)

\* Execute returned nil with AutoBackup on after a non-destructive change, two
\* backups, and destructive changes with and without a backup-table name.
C9_Witness ==
    /\ autoBackup
    /\ mret = "ok"
    /\ \E k \in 1..Len(migLog) : migLog[k].kind = "change" /\ ~migLog[k].change.Destructive
    /\ Cardinality({k \in 1..Len(migLog) : SentBackup(k) /\ migLog[k].ok}) >= 2
    /\ \E k \in 1..Len(migLog) :
          AppliedDestructive(k) /\ migLog[k].change.BackupTable = NoName
    /\ \E k \in 1..Len(migLog) :
          AppliedDestructive(k) /\ migLog[k].change.BackupTable # NoName

\* a backup that holds the data change c destroys: the same column of the same
\* table, or the whole table
CoversData(b, c) ==
    /\ b.Table = c.Table
    /\ b.Column = c.Column \/ b.Column = NoName

\* C10: with AutoBackup on, Execute never drops a table, drops a column or
\* modifies a column's type unless a backup copy of the affected data has been
\* created first.
C10_BackupBeforeEveryDestructive ==
    autoBackup =>
        \A k \in 1..Len(migLog) :
            AppliedDestructive(k) =>
                \E j \in 1..(k - 1) :
                    /\ SentBackup(j)
                    /\ migLog[j].ok
                    /\ CoversData(migLog[j].change, migLog[k].change)

\* Plan was called twice in a row: nothing was executed in between.
PlannedTwice == mpc = "replanned" /\ migLog = <<>> /\ mret = "none"

\* a change without the instant its backup-table name was generated at
Shape(c) ==
    [Action |-> c.Action, Table |-> c.Table, Column |-> c.Column, OldType |-> c.OldType,
     NewType |-> c.NewType, Destructive |-> c.Destructive,
     Backed |-> c.BackupTable # NoName]

ShapesOf(p) == {Shape(p[k]) : k \in 1..Len(p)}

\* C11 (as stated): Plan called twice in a row with no schema or model change in
\* between yields an empty change list the second time.
C11_Original == PlannedTwice => plan2 = <<>>

\* C11 (amended): Plan called twice in a row with no schema or model change in
\* between yields the same changes both times, in some order and with
\* backup-table names generated at the time of each call; the second list is
\* empty exactly when the first is.
C11_SamePlanTwice ==
    PlannedTwice => /\ Len(plan2) = Len(plan)
                    /\ ShapesOf(plan2) = ShapesOf(plan)
                    /\ (plan2 = <<>> <=> plan = <<>>)

\* Two calls in a row returned a non-empty list holding a DROP_COLUMN, in a
\* different order or with a different backup-table name.
C11_Witness ==
    /\ PlannedTwice
    /\ Len(plan) >= 2
    /\ \E k \in 1..Len(plan) : plan[k].Action = "DROP_COLUMN"
    /\ plan2 # plan

IsDrop(c) == c.Action \in {"DROP_TABLE", "DROP_COLUMN"}

\* the name starts with _backup_, pg_, sql_ or _goorm_
SystemName(name) ==
    \/ HasPrefix(name, <<"_", "b", "a", "c", "k", "u", "p", "_">>)
    \/ HasPrefix(name, <<"p", "g", "_">>)
    \/ HasPrefix(name, <<"s", "q", "l", "_">>)
    \/ HasPrefix(name, <<"_", "g", "o", "o", "r", "m", "_">>)

NoBadDrop(p) ==
    \A k \in 1..Len(p) :
        /\ IsDrop(p[k]) => aggressive
        /\ p[k].Action = "DROP_TABLE" => ~SystemName(p[k].Table)

\* C12: Plan emits DROP_TABLE and DROP_COLUMN changes only in aggressive mode,
\* and never a DROP_TABLE for a table whose name starts with a system-table
\* prefix; outside aggressive mode no plan holds a drop.
C12_DropsOnlyAggressiveNeverSystem == NoBadDrop(plan) /\ NoBadDrop(plan2)

\* In aggressive mode Plan returned a DROP_TABLE and a DROP_COLUMN while an
\* undeclared pg_ table was live; a later Plan ran with a _backup_ table live.
C12_Witness ==
    /\ aggressive
    /\ mpc = "replanned"
    /\ TblPgStat \in DOMAIN live
    /\ \E t \in DOMAIN live : HasPrefix(t, <<"_", "b", "a", "c", "k", "u", "p", "_">>)
    /\ \E k \in 1..Len(plan) : plan[k].Action = "DROP_TABLE"
    /\ \E k \in 1..Len(plan) : plan[k].Action = "DROP_COLUMN"

\* what a change that was applied, or a backup that was created, left in the schema
EffectHolds(kind, c) ==
    IF kind = "backup" THEN c.BackupTable \in DOMAIN live
    ELSE CASE c.Action = "CREATE_TABLE" -> c.Table \in DOMAIN live
           [] c.Action = "ADD_COLUMN" -> c.Column \in DOMAIN live[c.Table]
           [] c.Action = "MODIFY_COLUMN" -> live[c.Table][c.Column] = ReportedType(c.NewType)
           [] c.Action = "DROP_TABLE" -> c.Table \notin DOMAIN live
           [] c.Action = "DROP_COLUMN" -> c.Column \notin DOMAIN live[c.Table]
           [] OTHER -> FALSE

\* C13: when a change or a backup fails during Execute, execution stops there
\* and the error is returned: the statements sent are a prefix of Execute's
\* order, the failed one is the last, nothing ordered after it is applied, and
\* what was applied before it stays applied.
C13_StopsAtFailure ==
    /\ Len(migLog) <= Len(Schedule(plan, autoBackup))
    /\ \A k \in 1..Len(migLog) :
          /\ migLog[k].kind = Schedule(plan, autoBackup)[k].kind
          /\ migLog[k].change = Schedule(plan, autoBackup)[k].change
          /\ ~migLog[k].ok => (k = Len(migLog) /\ mret = "error" /\ mpc = "done")
          /\ migLog[k].ok => EffectHolds(migLog[k].kind, migLog[k].change)

\* A backup failed after a change had been applied and with changes still to run.
C13_Witness ==
    /\ mret = "error"
    /\ mpc = "done"
    /\ Len(migLog) >= 2
    /\ Len(migLog) < Len(Schedule(plan, autoBackup))
    /\ migLog[Len(migLog)].kind = "backup"
    /\ ~migLog[Len(migLog)].ok
    /\ migLog[1].ok

\* Execute has applied a non-empty plan without error and Plan was called again.
ExecutedThenPlanned == mpc = "replanned" /\ mret = "ok" /\ migLog # <<>>

\* C30: after Execute has applied a plan without error, the next Plan is empty.
C30_ConvergesInOneRound == ExecutedThenPlanned => plan2 = <<>>

-----------------------------------------------------------------------------
(* Claims about relation loading *)

AllCarryRelation == \A k \in 1..Len(relData) : HasKey(relData[k], RelName)

\* C14: after has-many loading over N source records returned without error,
\* every one of the N records carries the relation-named key holding a
\* (possibly empty) collection.
C14_EveryRecordHasCollection ==
    (entry = "LoadRelations" /\ rret = "nil") => AllCarryRelation

\* C17: a find whose `with` lists a relation returns records in which that
\* relation has been loaded.
C17_FindLoadsWith ==
    (entry = "ExecuteQuery" /\ rret = "SUCCESS") => AllCarryRelation

InCollection(row, relRow) ==
    /\ HasKey(row, RelName)
    /\ \E k \in 1..Len(row[RelName]) : row[RelName][k] = relRow

\* C24: after loading, each related record is attached to every source record
\* whose reference-key value equals the related record's foreign-key value,
\* also when several source records share that value.
C24_AttachedToEveryMatch ==
    (entry = "LoadRelations" /\ rret = "nil" /\ rpc = "done") =>
        \A k \in 1..Len(relData) : \A relRow \in related :
            (HasKey(relData[k], ReferenceKey) /\ relRow[ForeignKey] = relData[k][ReferenceKey])
                => InCollection(relData[k], relRow)

-----------------------------------------------------------------------------
(* Claims about hooks and soft delete *)

ActionSent == \E k \in 1..Len(dbLog) : dbLog[k] = StatementOf(eq.Action)

\* C15: when create, update, delete or find runs through ExecuteQuery, the
\* hooks registered for the table and operation are invoked around the
\* statement, and a before-hook that returns an error aborts the operation: no
\* statement is executed.
C15_FailingBeforeHookAborts ==
    (hookMode = "failing" /\ eq.Action \in HookedActions) => ~ActionSent

\* C16: once soft delete is enabled for a table, a delete on it marks the
\* matching rows instead of removing them: no row is removed.
C16_SoftDeleteRemovesNothing ==
    (softDelete /\ eq.Action = "delete") => rows >= rowsAtCall

\* The fields an action needs: the action itself, the table for the actions
\* bound to a table, the payload of a create, the batch of a create_batch, an
\* operation of a transaction, the query of an explain or validate.
TableBound ==
    {"find", "count", "delete", "update", "aggregate", "create", "create_batch",
     "describe"}

LacksRequired(q) ==
    \/ q.Action = ""
    \/ q.Action \in TableBound /\ q.Table = ""
    \/ q.Action = "create" /\ q.Data = {}
    \/ q.Action = "create_batch" /\ q.DataBatch = 0
    \/ q.Action = "transaction" /\ q.Operations = 0
    \/ q.Action \in {"explain", "validate"} /\ q.QueryToExplain = <<>>

\* C19: a Query passed to ExecuteQuery that lacks a field its action requires
\* is rejected with VALIDATION_ERROR, and the call neither compiles SQL nor
\* sends a statement: Build() is never called for it.
C19_RejectedBeforeCompilation ==
    (epc # "idle" /\ LacksRequired(eq)) =>
        /\ builds = 0
        /\ dbLog = <<>>
        /\ epc \in {"start", "done"}
        /\ epc = "done" => eres = "VALIDATION_ERROR"

\* A create_batch on a named table without a batch was rejected.
C19_Witness ==
    /\ epc = "done"
    /\ eq.Action = "create_batch"
    /\ eq.Table # ""
    /\ eq.DataBatch = 0
    /\ eres = "VALIDATION_ERROR"
    /\ builds = 0

-----------------------------------------------------------------------------
(* Claims about the SQLBuilder *)

IsPlaceholder(tok) == tok.s \in {"$", "?"}

\* the placeholders of the text, left to right
PlaceholdersOf(sql) == SelectSeq(sql, IsPlaceholder)

\* the parameter a placeholder stands for: "$n" names the n-th, the k-th "?" the k-th
BoundIndex(tok, k) == IF tok.s = "$" THEN tok.n ELSE k

BuiltOk == bpc = "done" /\ ~bresult.err

\* C20: a built statement has as many parameters as its text has placeholders,
\* and the k-th placeholder from the left stands for the k-th parameter, which
\* is the value that placeholder was made for.
C20_ParamsMatchPlaceholders ==
    BuiltOk =>
        LET phs == PlaceholdersOf(bresult.SQL)
        IN /\ Len(phs) = Len(bresult.Params)
           /\ \A k \in 1..Len(phs) :
                 /\ BoundIndex(phs[k], k) = k
                 /\ bresult.Params[k] = phs[k].of

\* An update with a two-entry SET clause, one of them an increment, whose
\* predicates are a nested group holding a sub-select with HAVING, then a BETWEEN.
C20_Witness ==
    /\ BuiltOk
    /\ bdialect = "postgres"
    /\ bquery.Action = "update"
    /\ \E c \in DOMAIN bquery.Data : bquery.Data[c].t = "$incr"
    /\ Len(bquery.Where) = 2
    /\ Len(bquery.Where[1].And) = 2
    /\ bquery.Where[1].And[2].Subquery # <<>>
    /\ bquery.Where[2].Op = "between"
    /\ Len(bresult.Params) = 9

\* The conditions the builder compiles as a comparison with a value: those
\* without a group, a subquery or a column reference.
PlainValue(cond) ==
    /\ Len(cond.And) = 0
    /\ Len(cond.OrGroup) = 0
    /\ cond.Subquery = <<>>
    /\ cond.Ref = ""

\* IN / NOT IN on a value that is no array, BETWEEN on a value that is no
\* array of two.
BadListValue(cond) ==
    \/ cond.Op \in {"in", "not_in"} /\ cond.Value.t # "arr"
    \/ cond.Op = "between" /\ (cond.Value.t # "arr" \/ Len(cond.Value.a) # 2)

RECURSIVE HasBadListValue(_)
HasBadListValue(conds) ==
    \E k \in 1..Len(conds) :
        LET cond == conds[k]
        IN IF Len(cond.And) > 0 THEN HasBadListValue(cond.And)
           ELSE IF Len(cond.OrGroup) > 0 THEN HasBadListValue(cond.OrGroup)
           ELSE IF cond.Subquery # <<>> THEN HasBadListValue(cond.Subquery[1].Where)
           ELSE PlainValue(cond) /\ BadListValue(cond)

\* every BETWEEN of the text has its two bounds
BetweenWellFormed(sql) ==
    \A k \in 1..Len(sql) :
        sql[k].s = "BETWEEN" =>
            /\ k + 3 <= Len(sql)
            /\ IsPlaceholder(sql[k + 1])
            /\ sql[k + 2].s = "AND"
            /\ IsPlaceholder(sql[k + 3])

\* every IN / NOT IN of the text is followed by a parenthesised list or sub-select
InWellFormed(sql) ==
    \A k \in 1..Len(sql) :
        sql[k].s \in {"IN", "NOT IN"} => (k + 1 <= Len(sql) /\ sql[k + 1].s = "(")

\* C21: a query holding, at any depth, an IN or NOT IN condition whose value is
\* not an array, or a BETWEEN condition whose value is not an array of two,
\* does not compile: Build returns an error and no statement; the statements
\* that are built have every IN list and both BETWEEN bounds.
C21_BadListValueIsBuildError ==
    /\ (bpc # "idle" /\ bpc # "start" /\ HasBadListValue(bquery.Where)
           /\ bquery.Action \in {"find", "aggregate", "update", "delete", "count"})
          => (bpc = "failed" /\ bresult = NoBuildResult)
    /\ BuiltOk => (BetweenWellFormed(bresult.SQL) /\ InWellFormed(bresult.SQL))

\* A delete whose second predicate is a group holding nothing bad and whose
\* first is a BETWEEN with a one-element array was refused.
C21_Witness ==
    /\ bpc = "failed"
    /\ bquery.Action = "delete"
    /\ Len(bquery.Where) = 2
    /\ bquery.Where[1].Op = "between"
    /\ bquery.Where[1].Value = ArrV(<<8>>)
    /\ ~HasBadListValue(<<bquery.Where[2]>>)

\* the nesting depth of parentheses at the k-th token of the text
DepthAt(sql, k) ==
    Cardinality({j \in 1..(k - 1) : sql[j].s = "("})
    - Cardinality({j \in 1..(k - 1) : sql[j].s = ")"})

\* the k-th token lies in a HAVING clause
InHavingAt(sql, k) ==
    \E j \in 1..(k - 1) :
        /\ sql[j].s = "HAVING"
        /\ \A m \in j..k : DepthAt(sql, m) >= DepthAt(sql, j)

\* the k-th token is an AND or OR that joins two predicates (not the AND of a
\* BETWEEN, not one of a HAVING clause)
JoinsPredicates(sql, k) ==
    /\ sql[k].s \in {"AND", "OR"}
    /\ ~(k >= 3 /\ sql[k].s = "AND" /\ sql[k - 2].s = "BETWEEN")
    /\ ~InHavingAt(sql, k)

\* the words that join predicates in the text, left to right, with their depth
JoinWords(sql) ==
    LET marked == [k \in 1..Len(sql) |->
                     [s |-> IF JoinsPredicates(sql, k) THEN sql[k].s ELSE "",
                      d |-> DepthAt(sql, k)]]
    IN SelectSeq(marked, LAMBDA e : e.s # "")

\* The words a predicate list is to be joined with. `literal` reads the rule
\* "OR if its own flag is set, AND otherwise" for the members of an OR-group
\* too; otherwise the members of an OR-group are joined with OR.
RECURSIVE JoinWordsFor(_, _, _, _, _)
JoinWordsFor(conds, k, d, orGroup, literal) ==
    IF k > Len(conds) THEN <<>>
    ELSE LET cond == conds[k]
             word == IF (orGroup /\ ~literal) \/ cond.Or THEN "OR" ELSE "AND"
         IN (IF k = 1 THEN <<>> ELSE <<[s |-> word, d |-> d]>>)
            \o (IF Len(cond.And) > 0
                THEN JoinWordsFor(cond.And, 1, d + 1, FALSE, literal)
                ELSE IF Len(cond.OrGroup) > 0
                THEN JoinWordsFor(cond.OrGroup, 1, d + 1, TRUE, literal)
                ELSE IF cond.Subquery # <<>>
                THEN JoinWordsFor(cond.Subquery[1].Where, 1, d + 1, FALSE, literal)
                ELSE <<>>)
            \o JoinWordsFor(conds, k + 1, d, orGroup, literal)

\* no predicate list of the text begins with AND or OR
NoLeadingJoinWord(sql) ==
    \A k \in 1..(Len(sql) - 1) :
        sql[k].s \in {"WHERE", "("} => sql[k + 1].s \notin {"AND", "OR"}

\* WHERE stands in the statement exactly when the query has predicates
WhereIffPredicates(query, sql) ==
    (Len(query.Where) > 0) <=> (\E k \in 1..Len(sql) : sql[k].s = "WHERE" /\ DepthAt(sql, k) = 0)

PrefixRule(literal) ==
    BuiltOk =>
        /\ WhereIffPredicates(bquery, bresult.SQL)
        /\ NoLeadingJoinWord(bresult.SQL)
        /\ JoinWords(bresult.SQL) = JoinWordsFor(bquery.Where, 1, 0, FALSE, literal)

\* C22 as stated: in every predicate list, top-level or nested group, each
\* predicate after the first is joined by OR if its own flag is set and by AND
\* otherwise.
C22_Original == PrefixRule(TRUE)

\* C22: a query without predicates compiles without WHERE; in the top-level
\* list, in a nested AND-group and in a sub-select the first predicate has no
\* prefix and each later one has OR if its own flag is set and AND otherwise;
\* the members of a nested OR-group are joined with OR whatever their flags.
C22_PrefixFollowsFlag == PrefixRule(FALSE)

\* A statement whose first predicate is an AND-group beginning with a flagged
\* predicate and whose second predicate is an OR-group.
C22_Witness ==
    /\ BuiltOk
    /\ Len(bquery.Where) = 2
    /\ Len(bquery.Where[1].And) = 2
    /\ bquery.Where[1].And[1].Or
    /\ Len(bquery.Where[2].OrGroup) = 2
    /\ ~bquery.Where[2].OrGroup[2].Or
    /\ Len(JoinWords(bresult.SQL)) = 3

\* where the SET clause of an update's text ends
SetEnd(sql) ==
    IF \E k \in 1..Len(sql) : sql[k].s = "WHERE" /\ DepthAt(sql, k) = 0
    THEN CHOOSE k \in 1..Len(sql) :
            /\ sql[k].s = "WHERE" /\ DepthAt(sql, k) = 0
            /\ \A j \in 1..(k - 1) : sql[j].s # "WHERE"
    ELSE Len(sql) + 1

\* the places of the SET clause where column c is assigned
AssignmentsOf(sql, c) ==
    {k \in 4..(SetEnd(sql) - 2) : sql[k].s = c /\ sql[k + 1].s = "=" /\ sql[k - 1].s \in {"SET", ","}}

\* the tokens of the assignment that starts at k, up to the next "," or the end
\* of the SET clause
AssignmentAt(sql, k) ==
    LET stop == CHOOSE e \in (k + 1)..SetEnd(sql) :
                    /\ e = SetEnd(sql) \/ sql[e].s = ","
                    /\ \A j \in (k + 1)..(e - 1) : sql[j].s # ","
    IN SubSeq(sql, k, stop - 1)

\* the number of placeholders of the text up to and including the k-th token
PlaceholdersUpTo(sql, k) == Cardinality({j \in 1..k : IsPlaceholder(sql[j])})

\* C23: in a built update, a payload entry {"$incr": n} for column c gives
\* exactly one assignment of c, of the form `c = c + <placeholder>`, and the
\* one placeholder of that assignment is bound to n.
C23_IncrIsColumnPlusParam ==
    (BuiltOk /\ bquery.Action = "update") =>
        \A c \in DOMAIN bquery.Data :
            bquery.Data[c].t = "$incr" =>
                LET sql == bresult.SQL
                    at == AssignmentsOf(sql, c)
                IN /\ Cardinality(at) = 1
                   /\ \A k \in at :
                         LET part == AssignmentAt(sql, k)
                         IN /\ Len(part) = 5
                            /\ <<part[1].s, part[2].s, part[3].s, part[4].s>> = <<c, "=", c, "+">>
                            /\ IsPlaceholder(part[5])
                            /\ bresult.Params[PlaceholdersUpTo(sql, k + 4)]
                                  = IntV(bquery.Data[c].n)

\* An update whose payload has an increment after a plain entry, with predicates.
C23_Witness ==
    /\ BuiltOk
    /\ bquery.Action = "update"
    /\ bquery.Data = ("x" :> IntV(15)) @@ ("y" :> IncrV(16))
    /\ Len(bquery.Where) > 0
    /\ \E k \in AssignmentsOf(bresult.SQL, "y") :
          /\ bresult.SQL[k - 1].s = ","
          /\ bresult.Params[PlaceholdersUpTo(bresult.SQL, k + 4)] = IntV(16)

====
